---- MODULE Spec2Model ----
(***************************************************************************)
(* A model of pikiwidb's PRaft controller (src/src/praft/praft.cc): the    *)
(* process-wide object that owns one brpc::Server and one braft::Node and  *)
(* drives them: Init, the read-only queries, AddPeer / RemovePeer, Apply,  *)
(* ShutDown, Join, the cluster-join handshake and the braft::StateMachine  *)
(* callbacks.  The braft node and the brpc server are external libraries;  *)
(* the model keeps of them only what praft.cc observes: the server's       *)
(* status, the node's state, configuration and leadership, the committed   *)
(* log and the snapshot requests.                                          *)
(***************************************************************************)
EXTENDS Integers, Sequences, FiniteSets, TLC

VARIABLES
  g_config,      \* the loaded configuration: ip, port, raft_port_offset
  aborted,       \* TRUE once a failed assert() has aborted the process
  server_,       \* PRaft::server_ : 0 is nullptr, 1 points to brpc_server
  brpc_server,   \* the brpc::Server object server_ points to
  node_,         \* PRaft::node_ : 0 is nullptr, 1 points to braft_node
  braft_node,    \* the braft::Node object node_ points to
  dbid_,         \* PRaft::dbid_ , a string (sequence of characters)
  raw_addr_,     \* PRaft::raw_addr_ , the text "ip:port"
  initial_conf,  \* PRaft::node_options_.initial_conf , a set of peer ids
  submitted,     \* the tasks handed to braft::Node::apply, in order
  pc,            \* where the calling thread is: idle or blocked inside a call
  done,          \* the braft::SynchronizedClosure of the pending AddPeer/RemovePeer
  calls,         \* the library calls made by the last step, in order
  ret,           \* the last operation that returned, with its result
  join_ctx_,     \* PRaft::join_ctx_ : the client of the pending join and the peer it targets
  conn,          \* the outgoing connections of the join handshake, by peer address
  client_msgs,   \* the replies sent to each client that issued a join command
  njoin,         \* join commands issued so far, by client
  nreply,        \* replies sent so far to the clients of join commands
  owner,         \* history: by peer address, the client whose handshake the connection serves
  closed,        \* the clients whose connection has closed: their PClient is destroyed
  dangling,      \* history: a handler has used the handle of a closed client
  last_init,     \* history: how the last Init call returned: "none", "fail" or "ok"
  shutdown_called, \* history: PRaft::ShutDown has been called
  log,           \* the committed entries of the replicated log, in commit order
  applied_index, \* the index of the last entry the state machine has been given
  storage,       \* the storage adapter's state: the commands applied to it, in order
  fired,         \* the completion closures of tasks that have run, in order
  snap,          \* the snapshot executor: the save in progress, its writer and closure
  inits,         \* by thread, the Init call it is in: past the check of praft.cc:30 or not
  cluster,       \* the group a join targets: its leader, its peers, the replies under way
  group,         \* a group seen from outside: by node, whether it runs, its role and term
  hook,          \* the lifecycle hook the engine is in, if any
  query          \* a query on another thread: where it is, and the node it last used

vars == <<g_config, aborted, server_, brpc_server, node_, braft_node,
          dbid_, raw_addr_, initial_conf, submitted, pc, done, calls,
          ret, last_init, shutdown_called, join_ctx_, conn, client_msgs, njoin,
          nreply, owner, closed, dangling, log, applied_index, storage, fired, snap,
          inits, cluster, group, hook, query>>

\* the state the engine keeps for the state machine's callbacks
FsmVars == <<log, applied_index, storage, fired, snap>>

\* the callers of Init on other threads, and the remote group
OuterVars == <<inits, cluster, group, hook, query>>

JoinVars == <<join_ctx_, conn, client_msgs, njoin, nreply, owner, closed, dangling>>

----------------------------------------------------------------------------
(* Bounds of the model *)

MaxTasks == 2    \* tasks submitted through Apply
MaxJoins == 1    \* join commands issued by one client
MaxReplies == 2  \* replies sent to the clients of join commands

(* Program constants *)

RAFT_DBID_LEN == 32
EINVAL == 22
BasePort == 9221
PortOffset == 10

----------------------------------------------------------------------------
(* Strings are sequences; a group id is a sequence of characters. *)

Rep(c, n) == [i \in 1..n |-> c]

GroupIds == { Rep("a", RAFT_DBID_LEN), Rep("b", RAFT_DBID_LEN),
              Rep("a", RAFT_DBID_LEN - 1) }

ValidIps == {"127.0.0.1", "10.0.0.2", "10.0.0.3"}
ConfigIps == {"127.0.0.1", "localhost"}

Tasks == {"t1", "t2"}

\* butil::str2ip: succeeds on a dotted-quad text only
str2ip(s) == IF s \in ValidIps THEN [rc |-> 0, ip |-> s] ELSE [rc |-> -1, ip |-> "0.0.0.0"]

\* butil::EndPoint(ip, port) wrapped in braft::PeerId(addr): index 0
PeerId(ip, port) == [ip |-> ip, port |-> port, idx |-> 0]

\* braft::PeerId::parse of one "ip:port:idx" text
PeerIdParse(t) ==
  LET r == str2ip(t.ip)
  IN  IF r.rc /= 0 THEN [rc |-> -1, peer |-> PeerId("0.0.0.0", 0)]
      ELSE [rc |-> 0, peer |-> [ip |-> r.ip, port |-> t.port, idx |-> t.idx]]

\* braft::Configuration::parse_from of a comma-separated list of peer texts
parse_from(conf) ==
  IF \E i \in 1..Len(conf) : PeerIdParse(conf[i]).rc /= 0
  THEN [rc |-> -1, peers |-> {}]
  ELSE [rc |-> 0, peers |-> { PeerIdParse(conf[i]).peer : i \in 1..Len(conf) }]

\* the peers another member of the group may have
OtherPeers == { PeerId("10.0.0.2", BasePort + PortOffset) }

----------------------------------------------------------------------------
(* butil::Status *)

Status(c, m) == [code |-> c, msg |-> m]
OK == Status(0, "OK")
ok(s) == s.code = 0

\* what the engine can report for a membership change
\* (EPERM and ETIMEDOUT)
EngineFailures == { Status(1, "Not leader"), Status(110, "Timed out") }

----------------------------------------------------------------------------
(* The library objects *)

NoServer == [status |-> "NONE", services |-> {}, port |-> 0]
NewServer == [status |-> "READY", services |-> {}, port |-> 0]

EmptyPeer == PeerId("0.0.0.0", 0)

NoNode == [state |-> "NONE", group |-> "", peer |-> EmptyPeer, conf |-> {},
           leader |-> FALSE, leader_id |-> EmptyPeer]

\* before: history, the node's configuration when the call was made
NoDone == [armed |-> FALSE, set |-> FALSE, status |-> OK, kind |-> "none", peer |-> EmptyPeer,
           before |-> {}]

NoRet == [op |-> "none", val |-> 0]

----------------------------------------------------------------------------
(* The controller's fields as one record, so that PRaft::Init can be called *)
(* from more than one handler.                                              *)

Cur == [server_ |-> server_, brpc_server |-> brpc_server, node_ |-> node_,
        braft_node |-> braft_node, dbid_ |-> dbid_, raw_addr_ |-> raw_addr_,
        initial_conf |-> initial_conf]

\* the outcomes of the library calls of one Init execution, chosen by the environment
\* (the first call that fails ends the execution, so at most one of them fails);
\* ndebug: the build compiles assert() away
InitEnvs == { e \in [add_service : BOOLEAN, raft_add_service : BOOLEAN,
                     start : BOOLEAN, node_init : BOOLEAN, ndebug : BOOLEAN] :
              Cardinality({ f \in {"add_service", "raft_add_service", "start", "node_init"} :
                            ~e[f] }) <= 1 }

\* the outcomes that make a difference to an Init with this id in the current state:
\* an initialized controller makes no library call, and only an id of the wrong
\* length meets the assert
InitEnvsFor(group_id) ==
  IF server_ /= 0 /\ node_ /= 0
  THEN { e \in InitEnvs : e.add_service /\ e.raft_add_service /\ e.start
                          /\ e.node_init /\ e.ndebug }
  ELSE IF Len(group_id) = RAFT_DBID_LEN
  THEN { e \in InitEnvs : e.ndebug }
  ELSE InitEnvs

\* the environment in which every library call of Init succeeds
AllOk == [add_service |-> TRUE, raft_add_service |-> TRUE, start |-> TRUE,
          node_init |-> TRUE, ndebug |-> TRUE]

InitResult(st, status, trace, abrt) ==
  [st |-> st, status |-> status, calls |-> trace, aborted |-> abrt]

\* a guard that also asks for a listening server lets Init run again after ShutDown
AlreadyInitialized_WhileListening(st) ==
  st.node_ /= 0 /\ st.server_ /= 0 /\ st.brpc_server.status = "RUNNING"

\* a guard that tests the wrong handle lets an initialized controller run Init again
AlreadyInitialized_NoGuard(st) == st.node_ /= 0 /\ st.server_ = 0

\* praft.cc:30  if (node_ && server_)
AlreadyInitialized(st) == st.node_ /= 0 /\ st.server_ /= 0

\* praft.cc:36  auto port = g_config.port + g_config.raft_port_offset
RaftPort == g_config.port + g_config.raft_port_offset

\* praft.cc:63  assert(group_id.size() == RAFT_DBID_LEN)
GroupIdLenOk(group_id) == Len(group_id) = RAFT_DBID_LEN

\* the flag taken the other way round: seed the configuration when it is true
InitialConfText_Inverted(raw_addr, initial_conf_is_null) ==
  IF initial_conf_is_null
  THEN << [ip |-> raw_addr.ip, port |-> raw_addr.port, idx |-> 0] >>
  ELSE << >>

\* praft.cc:85-88  the text handed to initial_conf.parse_from
InitialConfText(raw_addr, initial_conf_is_null) ==
  IF ~initial_conf_is_null
  THEN << [ip |-> raw_addr.ip, port |-> raw_addr.port, idx |-> 0] >>
  ELSE << >>

\* a failed node_->init that keeps the node handle instead of releasing it
InitNode_KeepNode(st, ip, tr, env) ==
  LET tr1 == tr \o <<"Node::Node", "Node::init">>
      nd  == [state |-> "RUNNING", group |-> "pikiwidb", peer |-> PeerId(ip, RaftPort),
              conf |-> st.initial_conf, leader |-> FALSE, leader_id |-> EmptyPeer]
  IN  IF ~env.node_init
      THEN InitResult([st EXCEPT !.node_ = 1, !.braft_node = [nd EXCEPT !.state = "ERROR"]],
                      Status(EINVAL, "Fail to init raft node"), tr1, FALSE)
      ELSE InitResult([st EXCEPT !.node_ = 1, !.braft_node = nd], OK, tr1, FALSE)

\* praft.cc:103-108  node_ = make_unique<braft::Node>(...); node_->init(node_options_)
InitNode(st, ip, tr, env) ==
  LET tr1 == tr \o <<"Node::Node", "Node::init">>
      nd  == [state |-> "RUNNING", group |-> "pikiwidb", peer |-> PeerId(ip, RaftPort),
              conf |-> st.initial_conf, leader |-> FALSE, leader_id |-> EmptyPeer]
  IN  IF ~env.node_init
      THEN InitResult([st EXCEPT !.node_ = 0, !.braft_node = NoNode],
                      Status(EINVAL, "Fail to init raft node"), tr1, FALSE)
      ELSE InitResult([st EXCEPT !.node_ = 1, !.braft_node = nd],
                      OK, tr1, FALSE)

\* praft.cc:62-101  record the group id and the address, build the initial configuration
InitOptions(st, group_id, initial_conf_is_null, tr, env) ==
  IF ~GroupIdLenOk(group_id) /\ ~env.ndebug
  THEN InitResult(st, Status(EINVAL, "abort"), tr \o <<"abort">>, TRUE)
  ELSE
    LET raw == [ip |-> g_config.ip, port |-> RaftPort]
        st1 == [st EXCEPT !.dbid_ = group_id, !.raw_addr_ = raw]
        r   == str2ip(g_config.ip)
        tr1 == tr \o <<"str2ip">>
    IN  IF r.rc /= 0
        THEN InitResult(st1, Status(EINVAL, "Fail to covert str_ip to butil::ip_t"), tr1, FALSE)
        ELSE
          LET c   == parse_from(InitialConfText(raw, initial_conf_is_null))
              st2 == [st1 EXCEPT !.initial_conf = c.peers]
              tr2 == tr1 \o <<"parse_from">>
          IN  IF c.rc /= 0
              THEN InitResult(st2, Status(EINVAL, "Fail to parse address."), tr2, FALSE)
              ELSE InitNode(st2, r.ip, tr2, env)

\* an Init that logs a failed Server::Start and carries on
InitServer_IgnoreStart(st, group_id, initial_conf_is_null, env) ==
  LET st1 == [st EXCEPT !.server_ = 1, !.brpc_server = NewServer,
                        !.brpc_server.services = {"DummyService", "raft"}]
      tr1 == <<"Server::Server", "Server::AddService", "braft::add_service", "Server::Start">>
  IN  IF ~env.add_service \/ ~env.raft_add_service
      THEN InitResult(st1, Status(EINVAL, "Fail to add service"), tr1, FALSE)
      ELSE InitOptions(IF env.start
                       THEN [st1 EXCEPT !.brpc_server.status = "RUNNING",
                                        !.brpc_server.port = RaftPort]
                       ELSE st1,
                       group_id, initial_conf_is_null, tr1, env)

\* praft.cc:34-60  construct the server, add the services, start the listener
InitServer(st, group_id, initial_conf_is_null, env) ==
  LET st1 == [st EXCEPT !.server_ = 1, !.brpc_server = NewServer]
      tr1 == <<"Server::Server", "Server::AddService">>
  IN  IF ~env.add_service
      THEN InitResult(st1, Status(EINVAL, "Fail to add service"), tr1, FALSE)
      ELSE
        LET st2 == [st1 EXCEPT !.brpc_server.services = {"DummyService"}]
            tr2 == tr1 \o <<"braft::add_service">>
        IN  IF ~env.raft_add_service
            THEN InitResult(st2, Status(EINVAL, "Fail to add raft service"), tr2, FALSE)
            ELSE
              LET st3 == [st2 EXCEPT !.brpc_server.services = {"DummyService", "raft"}]
                  tr3 == tr2 \o <<"Server::Start">>
              IN  IF ~env.start
                  THEN InitResult(st3, Status(EINVAL, "Fail to start Server"), tr3, FALSE)
                  ELSE InitOptions([st3 EXCEPT !.brpc_server.status = "RUNNING",
                                               !.brpc_server.port = RaftPort],
                                   group_id, initial_conf_is_null, tr3, env)

\* praft.cc:29-111  PRaft::Init(group_id, initial_conf_is_null)
PRaftInit(st, group_id, initial_conf_is_null, env) ==
  IF AlreadyInitialized(st)
  THEN InitResult(st, OK, << >>, FALSE)
  ELSE InitServer(st, group_id, initial_conf_is_null, env)

Controller == <<server_, brpc_server, node_, braft_node, dbid_, raw_addr_, initial_conf>>

\* the controller's fields after a call
SetCur(st) ==
  /\ server_' = st.server_
  /\ brpc_server' = st.brpc_server
  /\ node_' = st.node_
  /\ braft_node' = st.braft_node
  /\ dbid_' = st.dbid_
  /\ raw_addr_' = st.raw_addr_
  /\ initial_conf' = st.initial_conf

Running == ~aborted /\ pc = "idle"

\* a caller invokes PRaft::Init
InitCall(group_id, initial_conf_is_null, env) ==
  /\ Running
  /\ \E r \in {PRaftInit(Cur, group_id, initial_conf_is_null, env)} :
         /\ SetCur(r.st)
         /\ aborted' = r.aborted
         /\ calls' = r.calls
         /\ ret' = IF r.aborted THEN NoRet
                   ELSE [op |-> "Init", val |-> r.status,
                         group_id |-> group_id, flag |-> initial_conf_is_null,
                         after_success |-> (last_init = "ok")]
         /\ last_init' = IF r.aborted THEN last_init
                         ELSE IF ok(r.status) THEN "ok" ELSE "fail"
  /\ UNCHANGED <<JoinVars, FsmVars, OuterVars, g_config, submitted, pc, done, shutdown_called>>

----------------------------------------------------------------------------
(* Init called from more than one thread.  PRaft holds no lock, so that a    *)
(* call is two steps another thread can come between: the test of           *)
(* praft.cc:30, and the rest of the function.                                *)

InitThreads == {1, 2}

NoInit == [pc |-> "idle", group_id |-> << >>, initial_conf_is_null |-> FALSE]

\* praft.cc:30-32  the thread t enters Init and tests node_ && server_
InitCheck(t, group_id, initial_conf_is_null) ==
  /\ ~aborted
  /\ inits[t].pc = "idle"
  /\ IF AlreadyInitialized(Cur)
     THEN /\ ret' = [op |-> "Init", val |-> OK, group_id |-> group_id,
                     flag |-> initial_conf_is_null, after_success |-> (last_init = "ok")]
          /\ last_init' = "ok"
          /\ UNCHANGED inits
     ELSE /\ inits' = [inits EXCEPT ![t] = [pc |-> "passed", group_id |-> group_id,
                                            initial_conf_is_null |-> initial_conf_is_null]]
          /\ ret' = NoRet
          /\ UNCHANGED last_init
  /\ calls' = << >>
  /\ UNCHANGED <<Controller, JoinVars, FsmVars, cluster, group, hook, query, g_config, aborted, submitted,
                 pc, done, shutdown_called>>

\* server_ and node_ are plain unique_ptr members: two threads that write them without
\* synchronization race, and the behaviour is undefined: the process crashes or runs on
RaceOutcomes(t) ==
  IF \E u \in InitThreads \ {t} : inits[u].pc = "passed" THEN BOOLEAN ELSE {FALSE}

\* praft.cc:34-110  the thread t, past the test, runs the rest of Init
InitRest(t, env) ==
  /\ ~aborted
  /\ inits[t].pc = "passed"
  /\ \E r \in {InitServer(Cur, inits[t].group_id, inits[t].initial_conf_is_null, env)} :
     \E crash \in RaceOutcomes(t) :
         /\ SetCur(r.st)
         /\ aborted' = (r.aborted \/ crash)
         /\ calls' = r.calls
         /\ ret' = IF r.aborted \/ crash THEN NoRet
                   ELSE [op |-> "Init", val |-> r.status, group_id |-> inits[t].group_id,
                         flag |-> inits[t].initial_conf_is_null,
                         after_success |-> (last_init = "ok")]
         /\ last_init' = IF r.aborted \/ crash THEN last_init
                         ELSE IF ok(r.status) THEN "ok" ELSE "fail"
  /\ inits' = [inits EXCEPT ![t] = NoInit]
  /\ UNCHANGED <<JoinVars, FsmVars, cluster, group, hook, query, g_config, submitted, pc, done, shutdown_called>>

\* the thread t goes on; the library calls come out as the environment decides
InitProceed(t) == \E env \in InitEnvsFor(inits[t].group_id) : InitRest(t, env)

----------------------------------------------------------------------------
(* The read-only queries: each gives the value returned and the calls made  *)
(* on the consensus node.                                                   *)

\* braft::PeerId::to_string and braft::NodeId::to_string
PeerToString(p) == <<p.ip, p.port, p.idx>>
NodeIdToString(n) == <<n.group>> \o PeerToString(n.peer)

\* praft.cc:113-119
IsLeader ==
  IF node_ = 0 THEN [val |-> FALSE, calls |-> << >>]
  ELSE [val |-> braft_node.leader, calls |-> <<"Node::is_leader">>]

\* praft.cc:121-127
GetLeaderId ==
  IF node_ = 0 THEN [val |-> <<"Fail to get leader id">>, calls |-> << >>]
  ELSE [val |-> PeerToString(braft_node.leader_id), calls |-> <<"Node::leader_id">>]

\* praft.cc:129-135
GetNodeId ==
  IF node_ = 0 THEN [val |-> <<"Fail to get node id">>, calls |-> << >>]
  ELSE [val |-> NodeIdToString(braft_node), calls |-> <<"Node::node_id">>]

\* a GetGroupId that returns dbid_ without looking at node_
GetGroupId_NoCheck == [val |-> dbid_, calls |-> << >>]

\* praft.cc:137-143
GetGroupId ==
  IF node_ = 0 THEN [val |-> <<"Fail to get cluster id">>, calls |-> << >>]
  ELSE [val |-> dbid_, calls |-> << >>]

\* praft.cc:145-154  a default-constructed braft::NodeStatus when there is no node
GetNodeStatus ==
  IF node_ = 0 THEN [val |-> [state |-> "END", leader_id |-> EmptyPeer], calls |-> << >>]
  ELSE [val |-> [state |-> IF braft_node.state /= "RUNNING" THEN braft_node.state
                           ELSE IF braft_node.leader THEN "LEADER" ELSE "FOLLOWER",
                 leader_id |-> braft_node.leader_id],
        calls |-> <<"Node::get_status">>]

\* braft::Node::list_peers: only the leader answers; it overwrites the vector
list_peers(peers) ==
  IF braft_node.state = "RUNNING" /\ braft_node.leader
  THEN [status |-> OK, peers |-> braft_node.conf]
  ELSE [status |-> Status(1, "Not leader"), peers |-> peers]

\* praft.cc:156-162  GetListPeers(peers): the status and the caller's vector afterwards
GetListPeers(peers) ==
  IF node_ = 0
  THEN [val |-> Status(EINVAL, "Node is not initialized"), peers |-> peers, calls |-> << >>]
  ELSE [val |-> list_peers(peers).status, peers |-> list_peers(peers).peers,
        calls |-> <<"Node::list_peers">>]

Frame == UNCHANGED <<JoinVars, FsmVars, OuterVars, g_config, aborted, server_,
                     brpc_server, node_,
                     braft_node, dbid_, raw_addr_, initial_conf, submitted, last_init, shutdown_called>>

\* the vectors a caller may pass to GetListPeers
PeerLists == { {}, OtherPeers }

----------------------------------------------------------------------------
(* Membership changes: the caller blocks on a SynchronizedClosure until the *)
(* engine runs it.                                                          *)

Peers == OtherPeers \cup { PeerId(ip, BasePort + PortOffset) : ip \in {"127.0.0.1"} }

\* a return that replaces the engine's failure by a status of its own
ChangeReturnStatus_Generic(d) ==
  IF ~ok(d.status) THEN Status(EINVAL, "Fail to change peers") ELSE OK

\* praft.cc:274-279 and 292-297  the status returned once the closure has run
ChangeReturnStatus(d) == IF ~ok(d.status) THEN d.status ELSE OK

\* praft.cc:265-268 and 283-286  if (!node_)
ChangeGuard == node_ = 0

\* praft.cc:264-272 / 282-290  up to done.wait()
ChangeCall(kind, peer) ==
  /\ Running
  /\ IF ChangeGuard
     THEN /\ ret' = [op |-> kind, val |-> Status(EINVAL, "Node is not initialized"),
                     engine |-> NoDone]
          /\ calls' = << >>
          /\ UNCHANGED <<pc, done>>
     ELSE /\ done' = [armed |-> TRUE, set |-> FALSE, status |-> OK, kind |-> kind, peer |-> peer,
                          before |-> braft_node.conf]
          /\ pc' = kind
          /\ calls' = <<IF kind = "AddPeer" THEN "Node::add_peer" ELSE "Node::remove_peer">>
          /\ ret' = NoRet
  /\ Frame

AddPeerCall(peer) == ChangeCall("AddPeer", peer)

RemovePeerCall(peer) == ChangeCall("RemovePeer", peer)

\* a call that does not wait for the closure and reads its status at once
ChangeWaitOver_NoWait == TRUE

\* praft.cc:272 / 290  done.wait() returns only after the closure has run
ChangeWaitOver == done.set

\* praft.cc:272-279 / 290-297  from done.wait() to the return
ChangeReturn ==
  /\ ~aborted
  /\ pc \in {"AddPeer", "RemovePeer"}
  /\ ChangeWaitOver
  /\ ret' = [op |-> pc, val |-> ChangeReturnStatus(done), engine |-> done]
  /\ pc' = "idle"
  /\ done' = NoDone
  /\ calls' = << >>
  /\ Frame

\* an engine that, asked to add a peer that is a member, drops it
ChangedConf_Toggle(conf, d) ==
  IF d.kind = "AddPeer" THEN (IF d.peer \in conf THEN conf \ {d.peer} ELSE conf \cup {d.peer})
  ELSE conf \ {d.peer}

\* the configuration after a change the engine committed
ChangedConf(conf, d) ==
  IF d.kind = "AddPeer" THEN conf \cup {d.peer} ELSE conf \ {d.peer}

\* the engine runs the closure of the pending change: it commits the change
\* (only a running leader can) or reports a failure and keeps the configuration
EngineResolve(st) ==
  /\ ~aborted
  /\ done.armed /\ ~done.set
  /\ IF ok(st)
     THEN /\ braft_node.state = "RUNNING" /\ braft_node.leader
          /\ braft_node' = [braft_node EXCEPT
                              !.conf = ChangedConf(@, done),
                              !.leader = braft_node.peer \in ChangedConf(braft_node.conf, done),
                              !.leader_id = IF braft_node.peer \in ChangedConf(braft_node.conf, done)
                                            THEN @ ELSE EmptyPeer]
     ELSE UNCHANGED braft_node
  /\ done' = [done EXCEPT !.set = TRUE, !.status = st]
  /\ ret' = NoRet
  /\ calls' = << >>
  /\ UNCHANGED <<JoinVars, FsmVars, OuterVars, g_config, aborted, server_, brpc_server, node_, dbid_,
                 raw_addr_, initial_conf, submitted, pc, last_init, shutdown_called>>

----------------------------------------------------------------------------
(* ShutDown, Join and Apply *)

\* braft::Node::shutdown(nullptr): a running node starts shutting down
NodeShutdown(n) ==
  IF n.state = "RUNNING"
  THEN [n EXCEPT !.state = "SHUTTING", !.leader = FALSE, !.leader_id = EmptyPeer]
  ELSE n

\* a Stop that, called on a stopping server, also joins it
ServerStop_Toggle(s) ==
  IF s.status = "RUNNING" THEN [s EXCEPT !.status = "STOPPING"]
  ELSE IF s.status = "STOPPING" THEN [s EXCEPT !.status = "READY"] ELSE s

\* brpc::Server::Stop(0): only a running server is stopped
ServerStop(s) == IF s.status = "RUNNING" THEN [s EXCEPT !.status = "STOPPING"] ELSE s

\* praft.cc:310-318  ShutDown, callable while another thread is blocked in a call
ShutDown ==
  /\ ~aborted
  /\ braft_node' = IF node_ /= 0 THEN NodeShutdown(braft_node) ELSE braft_node
  /\ brpc_server' = IF server_ /= 0 THEN ServerStop(brpc_server) ELSE brpc_server
  /\ calls' = (IF node_ /= 0 THEN <<"Node::shutdown">> ELSE << >>)
              \o (IF server_ /= 0 THEN <<"Server::Stop">> ELSE << >>)
  /\ ret' = [op |-> "ShutDown", val |-> pc, twice |-> (ret.op = "ShutDown")]
  /\ shutdown_called' = TRUE
  /\ UNCHANGED <<JoinVars, FsmVars, OuterVars, g_config, aborted, server_, node_, dbid_, raw_addr_,
                 initial_conf, submitted, pc, done, last_init>>

\* brpc::Server::Join: refuses a running server, else waits and leaves it READY
ServerJoin(s) == IF s.status \in {"READY", "STOPPING"} THEN [s EXCEPT !.status = "READY"] ELSE s

\* a join that returns as soon as the node was told to shut down
NodeJoined_Early(n) == n.state /= "RUNNING"

\* braft::Node::join returns once the node has shut down
NodeJoined(n) == n.state = "SHUTDOWN"

\* praft.cc:326-328  the server part of Join, and the return
JoinServerPart(blocked) ==
  /\ brpc_server' = IF server_ /= 0 THEN ServerJoin(brpc_server) ELSE brpc_server
  /\ pc' = "idle"
  /\ ret' = [op |-> "Join", val |-> 0, blocked |-> blocked]

\* praft.cc:321-329  Join is called
JoinCall ==
  /\ Running
  /\ IF node_ /= 0
     THEN /\ pc' = "Join"
          /\ ret' = NoRet
          /\ calls' = <<"Node::join">>
          /\ UNCHANGED brpc_server
     ELSE /\ JoinServerPart(FALSE)
          /\ calls' = IF server_ /= 0 THEN <<"Server::Join">> ELSE << >>
  /\ UNCHANGED <<JoinVars, FsmVars, OuterVars, g_config, aborted, server_, node_, braft_node, dbid_,
                 raw_addr_, initial_conf, submitted, done, last_init, shutdown_called>>

\* praft.cc:323-329  node_->join() returns, then the server is joined
JoinReturn ==
  /\ ~aborted
  /\ pc = "Join"
  /\ NodeJoined(braft_node)
  /\ JoinServerPart(TRUE)
  /\ calls' = IF server_ /= 0 THEN <<"Server::Join">> ELSE << >>
  /\ UNCHANGED <<JoinVars, FsmVars, OuterVars, g_config, aborted, server_, node_, braft_node, dbid_,
                 raw_addr_, initial_conf, submitted, done, last_init, shutdown_called>>

\* an Apply that submits without looking at node_
ApplyGuard_None == TRUE

\* praft.cc:332  if (node_)
ApplyGuard == node_ /= 0

\* praft.cc:331-335  Apply(task)
Apply(task) ==
  /\ Running
  /\ Len(submitted) < MaxTasks
  /\ IF ApplyGuard
     THEN /\ submitted' = Append(submitted, task)
          /\ calls' = <<"Node::apply">>
     ELSE /\ UNCHANGED submitted
          /\ calls' = << >>
  /\ ret' = [op |-> "Apply", val |-> task]
  /\ UNCHANGED <<JoinVars, FsmVars, OuterVars, g_config, aborted, server_, brpc_server, node_, braft_node,
                 dbid_, raw_addr_, initial_conf, pc, done, last_init, shutdown_called>>

----------------------------------------------------------------------------
(* The consensus engine's own steps *)

EngineFrame == /\ ret' = NoRet
               /\ calls' = << >>
               /\ UNCHANGED <<JoinVars, FsmVars, OuterVars, g_config, aborted, server_, brpc_server, node_,
                              dbid_, raw_addr_, initial_conf, submitted, pc,
                              done, last_init, shutdown_called>>

\* a running member of its own configuration wins an election
EngineElect ==
  /\ ~aborted
  /\ braft_node.state = "RUNNING" /\ ~braft_node.leader
  /\ braft_node.peer \in braft_node.conf
  /\ braft_node' = [braft_node EXCEPT !.leader = TRUE, !.leader_id = braft_node.peer]
  /\ EngineFrame

\* a leader steps down
EngineStepDown ==
  /\ ~aborted
  /\ braft_node.state = "RUNNING" /\ braft_node.leader
  /\ braft_node' = [braft_node EXCEPT !.leader = FALSE, !.leader_id = EmptyPeer]
  /\ EngineFrame

\* a running follower learns the group's configuration and leader from a peer
EngineFollow(ld) ==
  /\ ~aborted
  /\ braft_node.state = "RUNNING" /\ ~braft_node.leader
  /\ braft_node' = [braft_node EXCEPT !.conf = OtherPeers \cup {braft_node.peer},
                                      !.leader_id = ld]
  /\ EngineFrame

\* a node that was told to shut down finishes shutting down
EngineTerminate ==
  /\ ~aborted
  /\ braft_node.state = "SHUTTING"
  /\ braft_node' = [braft_node EXCEPT !.state = "SHUTDOWN"]
  /\ EngineFrame

----------------------------------------------------------------------------
(* The state machine callbacks the engine invokes.  The log is the group's   *)
(* committed entries; an entry is known by its index and carries the task's  *)
(* data.  The storage adapter's state is the sequence of entries applied to  *)
(* it, after whatever it held before the node was started.                   *)

\* one applied command: the index of its entry (0: from before the start) and its data
Cmd(i, data) == [index |-> i, data |-> data]

EmptyStorage == << >>

\* what the storage adapter may hold when the node is started
StorageStates == { EmptyStorage, <<Cmd(0, "old")>> }

\* no snapshot saved or loaded yet
NoSnap == [saving |-> FALSE, returned |-> 0, done_runs |-> 0, image |-> "none",
           saved_from |-> EmptyStorage, loaded |-> 0]

\* braft::Iterator over the committed entries first..last
Iterator(first, last) == [index |-> first, last |-> last]

\* an iterator that stays valid one entry past the committed ones
valid_Beyond(iter) == iter.index <= iter.last + 1

\* braft::Iterator::valid
valid(iter) == iter.index <= iter.last

\* braft::Iterator::next
next(iter) == [iter EXCEPT !.index = @ + 1]

\* praft.cc:342  the body of on_apply's loop is empty: the entry is neither decoded
\* nor applied, and its closure iter.done() is not run
on_apply_body(st, iter) == st

\* praft.cc:338-343  on_apply: for (; iter.valid(); iter.next()) {}
RECURSIVE on_apply(_, _)
on_apply(st, iter) ==
  IF valid(iter) THEN on_apply(on_apply_body(st, iter), next(iter))
  ELSE [st |-> st, iter |-> iter]

\* praft.cc:345  on_snapshot_save(writer, done): the body is empty, so that nothing is
\* written through the writer and done is not run
on_snapshot_save(sn) == sn

\* praft.cc:347  on_snapshot_load(reader): return 0, the reader is not read
on_snapshot_load(st, reader) == [rc |-> 0, st |-> st]

\* praft.cc:356  on_error(e): the body is empty
on_error(n, e) == n

FsmFrame == UNCHANGED <<JoinVars, OuterVars, g_config, aborted, server_, brpc_server, node_,
                        dbid_, raw_addr_, initial_conf, submitted, pc,
                        done, last_init, shutdown_called>>

\* the engine of a leader commits the next task it was handed
EngineCommit ==
  /\ ~aborted
  /\ braft_node.state = "RUNNING" /\ braft_node.leader
  /\ Len(log) < Len(submitted)
  /\ log' = Append(log, submitted[Len(log) + 1])
  /\ ret' = NoRet
  /\ calls' = << >>
  /\ UNCHANGED <<braft_node, applied_index, storage, fired, snap>>
  /\ FsmFrame

\* a task is submitted through Apply on the node that is the leader
LeaderApply(task) == braft_node.leader /\ Apply(task)

\* the engine gives on_apply the entries committed since the last call; the entries the
\* iterator has passed count as applied
OnApply ==
  /\ ~aborted
  /\ braft_node.state = "RUNNING"
  /\ applied_index < Len(log)
  /\ \E r \in {on_apply([storage |-> storage, fired |-> fired],
                        Iterator(applied_index + 1, Len(log)))} :
       /\ storage' = r.st.storage
       /\ fired' = r.st.fired
       /\ applied_index' = r.iter.index - 1
  /\ ret' = [op |-> "on_apply", val |-> 0, first |-> applied_index + 1, last |-> Len(log)]
  /\ calls' = << >>
  /\ UNCHANGED <<braft_node, log, snap>>
  /\ FsmFrame

\* the engine starts a snapshot: it refuses while a save is in progress or when nothing
\* was applied, and a save is in progress until its closure has run
OnSnapshotSave ==
  /\ ~aborted
  /\ braft_node.state = "RUNNING"
  /\ ~snap.saving /\ applied_index > snap.loaded
  /\ \E r \in {on_snapshot_save([image |-> "none", done_runs |-> 0])} :
       snap' = [snap EXCEPT !.saving = (r.done_runs = 0), !.returned = @ + 1,
                            !.done_runs = @ + r.done_runs, !.image = r.image,
                            !.saved_from = storage]
  /\ ret' = [op |-> "on_snapshot_save", val |-> 0]
  /\ calls' = << >>
  /\ UNCHANGED <<braft_node, log, applied_index, storage, fired>>
  /\ FsmFrame

\* a follower that is behind is sent the snapshot its leader took at index k: the engine
\* has on_snapshot_load read it and, on 0, counts the entries up to k as applied
OnSnapshotLoad(k) ==
  /\ ~aborted
  /\ braft_node.state = "RUNNING" /\ ~braft_node.leader
  /\ applied_index < k /\ k <= Len(log)
  /\ \E r \in {on_snapshot_load([storage |-> storage, fired |-> fired], k)} :
       /\ storage' = r.st.storage
       /\ fired' = r.st.fired
       /\ applied_index' = IF r.rc = 0 THEN k ELSE applied_index
       /\ snap' = IF r.rc = 0 THEN [snap EXCEPT !.loaded = k] ELSE snap
       /\ ret' = [op |-> "on_snapshot_load", val |-> r.rc]
  /\ calls' = << >>
  /\ UNCHANGED <<braft_node, log>>
  /\ FsmFrame

\* the engine reports an error to the state machine
OnError(e) ==
  /\ ~aborted
  /\ braft_node.state = "RUNNING"
  /\ braft_node' = on_error(braft_node, e)
  /\ ret' = [op |-> "on_error", val |-> e]
  /\ calls' = << >>
  /\ UNCHANGED FsmVars
  /\ FsmFrame

----------------------------------------------------------------------------
(* The join handshake.  A text is a sequence of characters, except that an   *)
(* ip and a number inside it are one element each.                           *)

Str_OK == <<"+", "O", "K">>
Str_ERR_wrong_leader == <<"-", "E", "R", "R", " ", "w", "r", "o", "n", "g", " ", "l", "e", "a", "d", "e", "r">>
Str_raft_group_id == <<"r", "a", "f", "t", "_", "g", "r", "o", "u", "p", "_", "i", "d">>
Str_raft_group_id_colon == Str_raft_group_id \o <<":">>
Str_CRLF == <<"\r", "\n">>
Str_ERR_other == <<"-", "E", "R", "R", " ", "b", "u", "s", "y">>

Clients == {1, 2}

Addr(ip, port) == [ip |-> ip, port |-> port]
EmptyAddr == Addr("0.0.0.0", 0)
JoinAddrs == { Addr("10.0.0.2", BasePort), Addr("10.0.0.3", BasePort) }
ConnAddrs == JoinAddrs \cup {EmptyAddr}

\* the replies a peer may send
PeerReplies ==
  {Str_OK \o Str_CRLF, Str_ERR_other}
  \cup { Str_ERR_wrong_leader \o <<" ", a.ip, ":", a.port>> : a \in JoinAddrs }
  \cup { Str_raft_group_id_colon \o g \o Str_CRLF : g \in GroupIds }
  \cup { Str_raft_group_id_colon \o Rep("a", RAFT_DBID_LEN) }
  \cup { Str_raft_group_id \o <<" ">> \o Rep("a", RAFT_DBID_LEN - 1) \o Str_CRLF }

\* std::string::npos, and a position, as signed numbers: npos + k is k - 1
npos == -1

\* std::string::find(pat, from): the first position (from 0) at or after from
\* where pat occurs, or npos
find(str, pat, from) ==
  LET hits == { i \in 0..(Len(str) - Len(pat)) :
                  i >= from /\ \A k \in 1..Len(pat) : str[i + k] = pat[k] }
  IN  IF hits = {} THEN npos
      ELSE CHOOSE i \in hits : \A j \in hits : i <= j

\* std::string::substr(pos, n)
substr(str, pos, n) ==
  SubSeq(str, pos + 1, IF pos + n > Len(str) THEN Len(str) ELSE pos + n)

NoJoinCtx == [client |-> 0, peer_ip |-> "", port |-> 0]

\* JoinCmdContext::Set
JoinCtxSet(client, peer_ip, port) == [client |-> client, peer_ip |-> peer_ip, port |-> port]

\* JoinCmdContext::GetClient
JoinCtxGetClient == join_ctx_.client

NoConn == [state |-> "closed", req |-> <<"none">>]

\* praft.cc:165-172  the request SendNodeInfoRequest pushes
NodeInfoRequest == <<"INFO raft">>

\* praft.cc:174-188  the request SendNodeAddRequest pushes: id 0 and this node's raft address
NodeAddRequest == <<"RAFT.NODE ADD", 0, g_config.ip, g_config.port + g_config.raft_port_offset>>

\* PClient::SetRes followed by SendPacket(Message()) on the client of the join command
SendToClient(msgs, c, res, msg) == [msgs EXCEPT ![c] = Append(@, [res |-> res, msg |-> msg])]

\* pstd::StringTrimLeft(str, cutset): drops the leading characters that are in cutset
RECURSIVE StringTrimLeft(_, _)
StringTrimLeft(str, cutset) ==
  IF str /= << >> /\ (\E i \in 1..Len(cutset) : cutset[i] = Head(str))
  THEN StringTrimLeft(Tail(str), cutset)
  ELSE str

\* braft::PeerId::parse of the text "ip:port"; a text that does not parse leaves
\* the default-constructed PeerId
ParseRedirect(str) ==
  IF Len(str) >= 3 /\ str[2] = ":" /\ str2ip(str[1]).rc = 0
  THEN Addr(str2ip(str[1]).ip, str[3])
  ELSE EmptyAddr

\* praft.cc:200, 205, 232, 255  which branch a reply takes: the tests are made in
\* this order, each one a search for the text anywhere in the reply
JoinReplyKind(reply) ==
  IF find(reply, Str_OK, 0) /= npos THEN "ok"
  ELSE IF find(reply, Str_ERR_wrong_leader, 0) /= npos THEN "wrong_leader"
  ELSE IF find(reply, Str_raft_group_id, 0) /= npos THEN "group_id"
  ELSE "other"

\* praft.cc:233-239  the group id a reply carries: from behind "raft_group_id:" to the
\* next line end; valid tells whether a line end was found
ReceivedGroupId(reply) ==
  LET group_id_start == find(reply, Str_raft_group_id_colon, 0)
                           + Len(Str_raft_group_id_colon)
      group_id_end == find(reply, Str_CRLF, group_id_start)
  IN  [valid |-> group_id_end /= npos,
       id |-> IF group_id_end /= npos
              THEN substr(reply, group_id_start, group_id_end - group_id_start)
              ELSE << >>]

\* a redirect branch that parses the reply without stripping the error text first
RedirectTarget_NoTrim(reply) == ParseRedirect(reply)

\* praft.cc:207-224  the address a wrong-leader reply carries, as the code reads it
RedirectTarget(reply) ==
  ParseRedirect(StringTrimLeft(StringTrimLeft(reply, Str_ERR_wrong_leader), <<" ">>))

\* JoinReplyKind, ReceivedGroupId and RedirectTarget, tabulated over the replies a
\* peer may send
KindOfReply == [reply \in PeerReplies |-> JoinReplyKind(reply)]
GroupIdOfReply == [reply \in PeerReplies |-> ReceivedGroupId(reply)]
RedirectTargetOfReply == [reply \in PeerReplies |-> RedirectTarget(reply)]

\* the library outcomes that matter to a reply: only a group-id report on a controller
\* that is not initialized runs the library calls of Init, and only an id of the wrong
\* length meets the assert
JoinEnvs(reply) ==
  IF KindOfReply[reply] /= "group_id" \/ ~GroupIdOfReply[reply].valid
     \/ JoinCtxGetClient = 0
  THEN { e \in InitEnvs : e.add_service /\ e.raft_add_service /\ e.start
                          /\ e.node_init /\ e.ndebug }
  ELSE InitEnvsFor(GroupIdOfReply[reply].id)

JoinFrame == UNCHANGED <<FsmVars, OuterVars, g_config, submitted, pc, done, shutdown_called>>

\* the client the JoinContext points to closes its connection: its PClient object is
\* destroyed, the pointer in the JoinContext is left as it is (praft.cc:225-226)
ClientClose(c) ==
  /\ Running
  /\ c \notin closed
  /\ JoinCtxGetClient = c
  /\ closed' = closed \cup {c}
  /\ calls' = << >>
  /\ ret' = NoRet
  /\ UNCHANGED <<Controller, aborted, last_init, join_ctx_, conn, client_msgs, njoin,
                 nreply, owner, dangling>>
  /\ JoinFrame

\* the join command of client c against the peer a: record the JoinContext and connect
JoinCmd(c, a) ==
  /\ Running
  /\ njoin[c] < MaxJoins
  /\ c \notin closed
  /\ njoin' = [njoin EXCEPT ![c] = @ + 1]
  /\ join_ctx_' = JoinCtxSet(c, a.ip, a.port)
  /\ conn' = [conn EXCEPT ![a] = [state |-> "connecting", req |-> <<"none">>]]
  /\ owner' = [owner EXCEPT ![a] = c]
  /\ calls' = <<"EventLoop::Connect">>
  /\ ret' = NoRet
  /\ UNCHANGED <<Controller, aborted, last_init, client_msgs, nreply, closed, dangling>>
  /\ JoinFrame

\* the connection to a is established: the first request of the handshake goes out
OnNewConnection(a) ==
  /\ Running
  /\ conn[a].state = "connecting"
  /\ conn' = [conn EXCEPT ![a] = [state |-> "open",
                                  req |-> IF node_ /= 0 THEN NodeAddRequest
                                          ELSE NodeInfoRequest]]
  /\ calls' = << >>
  /\ ret' = NoRet
  /\ UNCHANGED <<Controller, aborted, last_init, join_ctx_, client_msgs, njoin, nreply,
                 owner, closed, dangling>>
  /\ JoinFrame

\* a handler calls SetRes, SendPacket or Clear through the pointer the JoinContext
\* holds (praft.cc:225-226: a raw pointer).  When the client it points to is destroyed
\* the behaviour is undefined: the process crashes or runs on
DanglingOutcomes(uses) ==
  IF uses /\ JoinCtxGetClient \in closed THEN BOOLEAN ELSE {FALSE}

\* an error text that leaves out which peer could not be reached
ConnectionFailedMsg_NoPeer(peer_ip, port) ==
  <<"ERR failed to connect to cluster for join, please check logs ">>

\* praft.cc:303-304  the text of the error a failed connection is reported with
ConnectionFailedMsg(peer_ip, port) ==
  <<"ERR failed to connect to cluster for join, please check logs ", peer_ip, ":", port>>

\* praft.cc:300-307  the connection to a failed
OnJoinCmdConnectionFailed(a) ==
  /\ Running
  /\ conn[a].state = "connecting"
  /\ nreply < MaxReplies
  /\ conn' = [conn EXCEPT ![a] = NoConn]
  /\ \E crash \in DanglingOutcomes(JoinCtxGetClient /= 0) :
        /\ aborted' = crash
        /\ dangling' = (dangling \/ JoinCtxGetClient \in closed)
        /\ client_msgs' = IF JoinCtxGetClient /= 0 /\ JoinCtxGetClient \notin closed
                          THEN SendToClient(client_msgs, JoinCtxGetClient, "kErrOther",
                                            ConnectionFailedMsg(a.ip, a.port))
                          ELSE client_msgs
        /\ ret' = IF crash THEN NoRet
                  ELSE [op |-> "OnJoinCmdConnectionFailed", val |-> a,
                        join_client |-> JoinCtxGetClient]
  /\ nreply' = IF client_msgs' /= client_msgs THEN nreply + 1 ELSE nreply
  /\ calls' = << >>
  /\ UNCHANGED <<Controller, last_init, join_ctx_, njoin, owner, closed>>
  /\ JoinFrame

\* what a run of ProcessClusterJoinCmdResponse leaves behind: the controller's
\* fields, the JoinContext, the connections, the packets sent to the clients of
\* join commands, the library calls it made and the tuple it returns
JoinBase(reply) ==
  [st |-> Cur, aborted |-> FALSE, calls |-> << >>, last_init |-> last_init,
   join_ctx_ |-> join_ctx_, conn |-> conn, client_msgs |-> client_msgs,
   val |-> <<Len(reply), TRUE>>]

\* a +OK branch that sets the result and forgets to send it
JoinOnOK_NoSend(base, join_client) ==
  [base EXCEPT !.val = <<base.val[1], FALSE>>]

\* praft.cc:200-204  +OK: the client of the join command gets kOK
JoinOnOK(base, join_client) ==
  [base EXCEPT !.client_msgs = SendToClient(base.client_msgs, join_client, "kOK", << >>),
               !.val = <<base.val[1], FALSE>>]

\* a wrong-leader branch that records the leader and does not connect to it
JoinOnWrongLeader_NoConnect(base, join_client, reply) ==
  LET peer == RedirectTargetOfReply[reply]
  IN  [base EXCEPT !.join_ctx_ = JoinCtxSet(join_client, peer.ip, peer.port)]

\* praft.cc:205-231  wrong leader: record the leader in the JoinContext and connect to it
JoinOnWrongLeader(base, join_client, reply) ==
  LET peer == RedirectTargetOfReply[reply]
  IN  [base EXCEPT !.join_ctx_ = JoinCtxSet(join_client, peer.ip, peer.port),
                   !.conn = [base.conn EXCEPT ![peer] = [state |-> "connecting",
                                                         req |-> <<"none">>]],
                   !.calls = <<"EventLoop::Connect">>]

\* praft.cc:232-254  group id: Init as a member with an empty configuration, then the
\* add request on the connection the reply came from
JoinOnGroupId(base, join_client, client, reply, env) ==
  LET g == GroupIdOfReply[reply]
  IN  IF g.valid
      THEN LET r == PRaftInit(base.st, g.id, TRUE, env)
               b1 == [base EXCEPT !.st = r.st, !.aborted = r.aborted, !.calls = r.calls,
                                  !.last_init = IF r.aborted THEN base.last_init
                                                ELSE IF ok(r.status) THEN "ok"
                                                ELSE "fail"]
           IN  IF r.aborted THEN b1
               ELSE IF ~ok(r.status)
               THEN [b1 EXCEPT !.client_msgs = SendToClient(base.client_msgs, join_client,
                                                 "kErrOther", <<r.status.msg>>)]
               ELSE [b1 EXCEPT !.conn = [base.conn EXCEPT ![client].req = NodeAddRequest],
                               !.val = <<base.val[1], FALSE>>]
      ELSE [base EXCEPT !.client_msgs = SendToClient(base.client_msgs, join_client,
                                          "kErrOther", <<"Invalid raft_group_id">>)]

\* a last branch that reports a fixed text instead of what the peer said
JoinOnOther_FixedText(base, join_client, reply) ==
  [base EXCEPT !.client_msgs = SendToClient(base.client_msgs, join_client,
                                 "kErrOther", <<"Joined Raft cluster fail">>)]

\* praft.cc:255-259  any other reply: the client of the join command gets the reply itself
JoinOnOther(base, join_client, reply) ==
  [base EXCEPT !.client_msgs = SendToClient(base.client_msgs, join_client,
                                 "kErrOther", reply)]

\* praft.cc:190-262  what ProcessClusterJoinCmdResponse does with the reply that
\* arrived on the connection to `client`
JoinResponse(client, reply, env) ==
  LET join_client == JoinCtxGetClient
      base == JoinBase(reply)
      kind == KindOfReply[reply]
  IN
  IF join_client = 0 THEN [base EXCEPT !.val = <<0, TRUE>>]
  ELSE IF kind = "ok" THEN JoinOnOK(base, join_client)
  ELSE IF kind = "wrong_leader" THEN JoinOnWrongLeader(base, join_client, reply)
  ELSE IF kind = "group_id" THEN JoinOnGroupId(base, join_client, client, reply, env)
  ELSE JoinOnOther(base, join_client, reply)

\* praft.cc:202-203, 231, 243-244, 252-253, 257-258  the run has called SetRes and
\* SendPacket, or Clear, through the pointer the JoinContext holds
UsesJoinClient(r, reply) ==
  /\ JoinCtxGetClient /= 0
  /\ ~r.aborted
  /\ \/ r.client_msgs /= client_msgs
     \/ r.calls = <<"EventLoop::Connect">>

\* the caller of ProcessClusterJoinCmdResponse closes the connection the reply came
\* on when the second component of the returned tuple is true; a connection the
\* handler has just asked for to the same address is a new one and stays
Disconnect(before, after, client, is_disconnect) ==
  IF is_disconnect /\ after[client] = before[client]
  THEN [after EXCEPT ![client] = NoConn]
  ELSE after

\* a reply of the peer arrives on the open connection to `client`
ProcessClusterJoinCmdResponse(client, reply, env) ==
  /\ Running
  /\ conn[client].state = "open"
  /\ nreply < MaxReplies
  /\ \E r \in {JoinResponse(client, reply, env)} :
     \E crash \in DanglingOutcomes(UsesJoinClient(r, reply)) :
         /\ SetCur(r.st)
         /\ aborted' = (r.aborted \/ crash)
         /\ dangling' = (dangling \/ (UsesJoinClient(r, reply) /\ JoinCtxGetClient \in closed))
         /\ last_init' = r.last_init
         /\ join_ctx_' = r.join_ctx_
         /\ conn' = IF r.aborted THEN r.conn
                    ELSE Disconnect(conn, r.conn, client, r.val[2])
         /\ client_msgs' = IF JoinCtxGetClient \in closed THEN client_msgs
                           ELSE r.client_msgs
         /\ calls' = r.calls
         /\ owner' = IF r.calls = <<"EventLoop::Connect">>
                     THEN [owner EXCEPT ![Addr(r.join_ctx_.peer_ip, r.join_ctx_.port)] =
                             owner[client]]
                     ELSE owner
         /\ ret' = IF r.aborted \/ crash THEN NoRet
                   ELSE [op |-> "ProcessClusterJoinCmdResponse", val |-> r.val,
                         conn |-> client, reply |-> reply, join_client |-> JoinCtxGetClient]
  /\ nreply' = IF client_msgs' /= client_msgs THEN nreply + 1 ELSE nreply
  /\ UNCHANGED <<njoin, closed>>
  /\ UNCHANGED <<FsmVars, inits, group, hook, query, g_config, submitted, pc, done, shutdown_called>>

\* the peer at `client` sends a reply; the library calls of the handler come out as
\* the environment decides
PeerReply(client, reply) ==
  /\ conn[client].state = "open"
  /\ \E env \in JoinEnvs(reply) : ProcessClusterJoinCmdResponse(client, reply, env)
  /\ UNCHANGED cluster

\* the replies that report a group id
GroupIdReplies == { reply \in PeerReplies : KindOfReply[reply] = "group_id" }

----------------------------------------------------------------------------
(* An established group that the node joins: its members listen at JoinAddrs, *)
(* its leader is stable.  A member answers the request that is pending on the *)
(* connection to it; the answer then arrives as a reply.                      *)

ClusterLeader == Addr("10.0.0.3", BasePort)

ClusterGroupId == Rep("a", RAFT_DBID_LEN)

\* the members' raft addresses
ClusterConf == { PeerId(a.ip, a.port + PortOffset) : a \in JoinAddrs }

\* the last request a member answered, its answer, and whether the answer is under way
NoAnswer == [to |-> <<"none">>, reply |-> << >>, pending |-> FALSE]

NoCluster == [conf |-> ClusterConf, answer |-> [a \in JoinAddrs |-> NoAnswer]]

\* what the member at a answers: to INFO raft its group id; to RAFT.NODE ADD +OK when
\* it is the leader, and else a wrong-leader error that names the leader
AnswerOf(a, req) ==
  IF req[1] = "INFO raft" THEN Str_raft_group_id_colon \o ClusterGroupId \o Str_CRLF
  ELSE IF a = ClusterLeader THEN Str_OK \o Str_CRLF
  ELSE Str_ERR_wrong_leader \o <<" ", ClusterLeader.ip, ":", ClusterLeader.port>>

\* the member at a handles the request pending on the connection: the leader adds the
\* peer that RAFT.NODE ADD names to the group's configuration
ClusterHandle(a) ==
  /\ ~aborted
  /\ conn[a].state = "open"
  /\ conn[a].req[1] /= "none"
  /\ cluster.answer[a].to /= conn[a].req
  /\ cluster' = [conf |-> IF a = ClusterLeader /\ conn[a].req[1] = "RAFT.NODE ADD"
                          THEN cluster.conf \cup {PeerId(conn[a].req[3], conn[a].req[4])}
                          ELSE cluster.conf,
                 answer |-> [cluster.answer EXCEPT
                               ![a] = [to |-> conn[a].req, reply |-> AnswerOf(a, conn[a].req),
                                       pending |-> TRUE]]]
  /\ ret' = NoRet
  /\ calls' = << >>
  /\ UNCHANGED <<Controller, JoinVars, FsmVars, inits, group, hook, query, g_config, aborted, submitted, pc,
                 done, last_init, shutdown_called>>

\* the first join command of client 1, against the member at a
JoinOnce(a) == njoin[1] = 0 /\ JoinCmd(1, a)

\* the answer of the member at a to the pending request arrives, on a node whose
\* library calls succeed
ClusterDeliver(a) ==
  /\ cluster.answer[a].pending
  /\ conn[a].state = "open"
  /\ ProcessClusterJoinCmdResponse(a, cluster.answer[a].reply, AllOk)
  /\ cluster' = [cluster EXCEPT !.answer[a].pending = FALSE]

----------------------------------------------------------------------------
(* Init on one thread while another thread calls into the controller.  The    *)
(* handle node_ is assigned at praft.cc:103, the node is initialized at       *)
(* praft.cc:104 and the handle is released at praft.cc:105 when that fails;   *)
(* a query tests the handle and then calls through it.  PRaft holds no lock,  *)
(* so each of these is a step of its own.                                     *)

Queries == {"IsLeader", "GetLeaderId", "GetNodeId", "GetNodeStatus", "GetListPeers"}

NoQuery == [pc |-> "idle", op |-> "none", on |-> "none"]

\* praft.cc:113-162  the value and the calls of the query q
QueryOf(q) ==
  CASE q = "IsLeader" -> IsLeader
    [] q = "GetLeaderId" -> GetLeaderId
    [] q = "GetNodeId" -> GetNodeId
    [] q = "GetNodeStatus" -> GetNodeStatus
    [] q = "GetListPeers" -> [val |-> GetListPeers({}).val, calls |-> GetListPeers({}).calls]

\* praft.cc:118, 126, 134, 150, 161  the call a query makes through node_
NodeCallOf(q) ==
  CASE q = "IsLeader" -> "Node::is_leader"
    [] q = "GetLeaderId" -> "Node::leader_id"
    [] q = "GetNodeId" -> "Node::node_id"
    [] q = "GetNodeStatus" -> "Node::get_status"
    [] q = "GetListPeers" -> "Node::list_peers"

\* praft.cc:30-103  the thread t, past the test, runs Init up to the assignment of
\* node_: it returns when a step before fails, else the handle points to a node that
\* is constructed and not initialized
InitConstruct(t, env) ==
  /\ ~aborted
  /\ inits[t].pc = "passed"
  /\ env.node_init
  /\ \E r \in {InitServer(Cur, inits[t].group_id, inits[t].initial_conf_is_null, env)} :
       IF r.aborted \/ ~ok(r.status)
       THEN /\ SetCur(r.st)
            /\ aborted' = r.aborted
            /\ calls' = r.calls
            /\ ret' = IF r.aborted THEN NoRet
                      ELSE [op |-> "Init", val |-> r.status, group_id |-> inits[t].group_id,
                            flag |-> inits[t].initial_conf_is_null,
                            after_success |-> (last_init = "ok")]
            /\ last_init' = IF r.aborted THEN last_init ELSE "fail"
            /\ inits' = [inits EXCEPT ![t] = NoInit]
       ELSE /\ SetCur([r.st EXCEPT !.braft_node.state = "CONSTRUCTED", !.braft_node.conf = {}])
            /\ calls' = SubSeq(r.calls, 1, Len(r.calls) - 1)
            /\ ret' = NoRet
            /\ inits' = [inits EXCEPT ![t].pc = "constructed"]
            /\ UNCHANGED <<aborted, last_init>>
  /\ UNCHANGED <<JoinVars, FsmVars, cluster, group, hook, query, g_config, submitted, pc, done,
                 shutdown_called>>

\* the thread t goes on to the assignment of node_
InitGoOn(t) == \E env \in InitEnvsFor(inits[t].group_id) : InitConstruct(t, env)

\* praft.cc:104-110  node_->init(node_options_); node_.reset() when it fails
InitNodeInit(t, node_init) ==
  /\ ~aborted
  /\ inits[t].pc = "constructed"
  /\ \E r \in {InitNode(Cur, str2ip(g_config.ip).ip, << >>,
                        [AllOk EXCEPT !.node_init = node_init])} :
       /\ SetCur(r.st)
       /\ calls' = <<"Node::init">>
       /\ ret' = [op |-> "Init", val |-> r.status, group_id |-> inits[t].group_id,
                  flag |-> inits[t].initial_conf_is_null,
                  after_success |-> (last_init = "ok")]
       /\ last_init' = IF ok(r.status) THEN "ok" ELSE "fail"
  /\ inits' = [inits EXCEPT ![t] = NoInit]
  /\ UNCHANGED <<JoinVars, FsmVars, cluster, group, hook, query, g_config, aborted, submitted,
                 pc, done, shutdown_called>>

QueryFrame == UNCHANGED <<Controller, JoinVars, FsmVars, inits, cluster, group, hook, g_config,
                          submitted, pc, done, last_init, shutdown_called>>

\* praft.cc:114, 122, 130, 147, 157  if (!node_): the query q returns its
\* not-initialized result, or goes on to the call
QueryCheck(q) ==
  /\ ~aborted
  /\ query.pc = "idle"
  /\ IF node_ = 0
     THEN /\ ret' = [op |-> q, val |-> QueryOf(q).val]
          /\ query' = [pc |-> "idle", op |-> q, on |-> "none"]
     ELSE /\ ret' = NoRet
          /\ query' = [pc |-> "checked", op |-> q, on |-> "none"]
  /\ calls' = << >>
  /\ UNCHANGED aborted
  /\ QueryFrame

\* praft.cc:118, 126, 134, 150, 161  the call through node_.  When Init has released
\* the node since the test, the call is made on a null handle: undefined behaviour,
\* the process crashes or runs on with whatever the call yields
QueryUse ==
  /\ ~aborted
  /\ query.pc = "checked"
  /\ IF node_ = 0
     THEN \E crash \in BOOLEAN :
            /\ aborted' = crash
            /\ ret' = IF crash THEN NoRet ELSE [op |-> query.op, val |-> <<"garbage">>]
            /\ query' = [pc |-> "idle", op |-> query.op, on |-> "RELEASED"]
     ELSE /\ ret' = [op |-> query.op, val |-> QueryOf(query.op).val]
          /\ query' = [pc |-> "idle", op |-> query.op, on |-> braft_node.state]
          /\ UNCHANGED aborted
  /\ calls' = <<NodeCallOf(query.op)>>
  /\ QueryFrame

----------------------------------------------------------------------------
(* The lifecycle hooks.  The engine calls a hook on one of its threads and    *)
(* goes on once the hook has returned; in between, the other threads run.     *)

Hooks == {"on_leader_start", "on_leader_stop", "on_shutdown", "on_error",
          "on_configuration_committed", "on_stop_following", "on_start_following"}

NoHook == [name |-> "none", st |-> "idle"]

\* an on_shutdown that waits for the node to be down
HookSteps_Join(h) ==
  IF h = "on_leader_start" THEN <<"Node::node_id">>
  ELSE IF h = "on_shutdown" THEN <<"Node::join">>
  ELSE << >>

\* praft.cc:349-359  what the body of a hook calls: on_leader_start reads the node's id
\* for its log line, the other bodies are empty
HookSteps(h) == IF h = "on_leader_start" THEN <<"Node::node_id">> ELSE << >>

\* a call returns at once, except braft::Node::join, which waits until the node is down
StepReturns(op) == op = "Node::join" => braft_node.state = "SHUTDOWN"

\* when the engine calls which hook
HookDue(h) ==
  CASE h = "on_leader_start" -> braft_node.state = "RUNNING" /\ braft_node.leader
    [] h = "on_leader_stop" -> braft_node.state \in {"RUNNING", "SHUTTING"} /\ ~braft_node.leader
    [] h = "on_shutdown" -> braft_node.state = "SHUTTING"
    [] h \in {"on_stop_following", "on_start_following"} ->
         braft_node.state = "RUNNING" /\ ~braft_node.leader
    [] OTHER -> braft_node.state = "RUNNING"

HookFrame == UNCHANGED <<Controller, JoinVars, FsmVars, inits, cluster, group, query, g_config,
                         aborted, submitted, pc, done, last_init, shutdown_called>>

\* the engine enters the hook h
HookCall(h) ==
  /\ ~aborted
  /\ node_ /= 0
  /\ hook.st = "idle"
  /\ HookDue(h)
  /\ hook' = [name |-> h, st |-> "running"]
  /\ ret' = NoRet
  /\ calls' = << >>
  /\ HookFrame

\* the body of the hook runs and the hook returns to the engine
HookReturn ==
  /\ hook.st = "running"
  /\ \A i \in 1..Len(HookSteps(hook.name)) : StepReturns(HookSteps(hook.name)[i])
  /\ hook' = NoHook
  /\ ret' = [op |-> hook.name, val |-> "void"]
  /\ calls' = HookSteps(hook.name)
  /\ HookFrame

----------------------------------------------------------------------------
(* A group of three nodes seen from outside: one is bootstrapped, the others  *)
(* are joined through the leader.  Of the engine only the election is kept:   *)
(* a node wins a term with the votes of a majority of the members, and a     *)
(* leader that has not voted learns of the new term only later.              *)

Nodes == {"n1", "n2", "n3"}

MaxTerm == 3     \* terms of the group's elections

NoGroup == [members |-> {}, role |-> [n \in Nodes |-> "none"], term |-> [n \in Nodes |-> 0]]

\* a query that asks the engine even when there is no node
IsLeaderOn_NoCheck(n) == group.role[n] /= "follower"

\* praft.cc:113-119  IsLeader on the node n: false without a node, else is_leader()
IsLeaderOn(n) == IF group.role[n] = "none" THEN FALSE ELSE group.role[n] = "leader"

GroupFrame == /\ ret' = NoRet
              /\ calls' = << >>
              /\ UNCHANGED <<Controller, JoinVars, FsmVars, inits, cluster, hook, query, g_config,
                             aborted, submitted, pc, done, last_init, shutdown_called>>

\* Init with its own address as the initial configuration, on the first node
GroupBootstrap ==
  /\ group.members = {}
  /\ group' = [group EXCEPT !.members = {"n1"}, !.role["n1"] = "follower"]
  /\ GroupFrame

\* the leader of the newest term adds the node n, which has run Init with an empty
\* configuration (RAFT.NODE ADD)
GroupJoin(n) ==
  /\ group.role[n] = "none"
  /\ \E l \in group.members :
       /\ group.role[l] = "leader"
       /\ \A m \in group.members : group.term[m] <= group.term[l]
       /\ group' = [group EXCEPT !.members = @ \cup {n}, !.role[n] = "follower",
                                 !.term[n] = group.term[l]]
  /\ GroupFrame

\* the member n wins the term after its own with the votes of the majority q: a voter
\* has not voted in that term, and a leader that votes steps down.  The engine then
\* calls on_leader_start(term) on n
GroupElect(n, q) ==
  /\ n \in q /\ q \subseteq group.members
  /\ 2 * Cardinality(q) > Cardinality(group.members)
  /\ group.role[n] = "follower"
  /\ group.term[n] < MaxTerm
  /\ \A v \in q : group.term[v] <= group.term[n]
  /\ group' = [group EXCEPT
                 !.role = [v \in Nodes |-> IF v = n THEN "leader"
                                           ELSE IF v \in q THEN "follower" ELSE @[v]],
                 !.term = [v \in Nodes |-> IF v \in q THEN group.term[n] + 1 ELSE @[v]]]
  /\ GroupFrame

\* the leader n hears of a later term and steps down: on_leader_stop
GroupStepDown(n) ==
  /\ group.role[n] = "leader"
  /\ \E m \in group.members :
       /\ group.term[m] > group.term[n]
       /\ group' = [group EXCEPT !.role[n] = "follower", !.term[n] = group.term[m]]
  /\ GroupFrame

----------------------------------------------------------------------------

Init ==
  /\ g_config \in [ip : ConfigIps, port : {BasePort}, raft_port_offset : {PortOffset}]
  /\ aborted = FALSE
  /\ server_ = 0
  /\ brpc_server = NoServer
  /\ node_ = 0
  /\ braft_node = NoNode
  /\ dbid_ = << >>
  /\ raw_addr_ = [ip |-> "", port |-> 0]
  /\ initial_conf = {}
  /\ submitted = << >>
  /\ pc = "idle"
  /\ done = NoDone
  /\ calls = << >>
  /\ ret = NoRet
  /\ last_init = "none"
  /\ join_ctx_ = NoJoinCtx
  /\ conn = [a \in ConnAddrs |-> NoConn]
  /\ client_msgs = [c \in Clients |-> << >>]
  /\ njoin = [c \in Clients |-> 0]
  /\ nreply = 0
  /\ owner = [a \in ConnAddrs |-> 0]
  /\ closed = {}
  /\ dangling = FALSE
  /\ shutdown_called = FALSE
  /\ log = << >>
  /\ applied_index = 0
  /\ storage \in StorageStates
  /\ fired = << >>
  /\ snap = NoSnap
  /\ inits = [t \in InitThreads |-> NoInit]
  /\ cluster = NoCluster
  /\ group = NoGroup
  /\ hook = NoHook
  /\ query = NoQuery

Next ==
  \/ \E g \in GroupIds, f \in BOOLEAN, env \in InitEnvs : InitCall(g, f, env)
  \/ \E p \in Peers : AddPeerCall(p)
  \/ \E p \in Peers : RemovePeerCall(p)
  \/ ChangeReturn
  \/ \E st \in {OK} \cup EngineFailures : EngineResolve(st)
  \/ ShutDown
  \/ JoinCall
  \/ JoinReturn
  \/ \E t \in Tasks : Apply(t)
  \/ EngineElect
  \/ EngineStepDown
  \/ \E ld \in OtherPeers : EngineFollow(ld)
  \/ EngineTerminate

Spec == Init /\ [][Next]_vars

\* Apply on a controller that may hold a JoinContext
NextApply ==
  \/ \E g \in GroupIds, f \in BOOLEAN, env \in InitEnvs : InitCall(g, f, env)
  \/ \E t \in Tasks : Apply(t)
  \/ \E a \in JoinAddrs : JoinCmd(1, a)
  \/ \E a \in ConnAddrs : OnNewConnection(a)
  \/ \E a \in ConnAddrs : OnJoinCmdConnectionFailed(a)

SpecApply == Init /\ [][NextApply]_vars

\* the join handshake, on a controller that may also be bootstrapped directly
NextJoin ==
  \/ \E env \in InitEnvs : InitCall(Rep("b", RAFT_DBID_LEN), FALSE, env)
  \/ \E a \in JoinAddrs : JoinCmd(1, a)
  \/ \E a \in ConnAddrs : OnNewConnection(a)
  \/ \E a \in ConnAddrs : OnJoinCmdConnectionFailed(a)
  \/ \E a \in ConnAddrs, reply \in PeerReplies : PeerReply(a, reply)

SpecJoin == Init /\ [][NextJoin]_vars

\* a join handshake, on a node that may have been initialized without failure, against
\* peers that answer with +OK, with an error or with a wrong-leader reply naming any
\* peer.  The event loop keeps handling
\* what arrives and a peer that is connected keeps answering: weak fairness
RedirectReplies == { reply \in PeerReplies : KindOfReply[reply] /= "group_id" }

NextRedirect ==
  \/ InitCall(Rep("b", RAFT_DBID_LEN), TRUE,
              [add_service |-> TRUE, raft_add_service |-> TRUE, start |-> TRUE,
               node_init |-> TRUE, ndebug |-> TRUE])
  \/ \E a \in JoinAddrs : JoinCmd(1, a)
  \/ \E a \in ConnAddrs : OnNewConnection(a)
  \/ \E a \in ConnAddrs : OnJoinCmdConnectionFailed(a)
  \/ \E a \in ConnAddrs, reply \in RedirectReplies : PeerReply(a, reply)

SpecRedirect == Init /\ [][NextRedirect]_vars /\ WF_vars(NextRedirect)

\* two clients issue join commands, against peers that answer with +OK, with an error
\* or with a wrong-leader reply
NextTwoJoins ==
  \/ \E c \in Clients, a \in JoinAddrs : JoinCmd(c, a)
  \/ \E a \in ConnAddrs : OnNewConnection(a)
  \/ \E a \in ConnAddrs : OnJoinCmdConnectionFailed(a)
  \/ \E a \in ConnAddrs, reply \in RedirectReplies : PeerReply(a, reply)

SpecTwoJoins == Init /\ [][NextTwoJoins]_vars

\* a join handshake whose client may close its connection at any moment
NextClose ==
  \/ \E a \in JoinAddrs : JoinCmd(1, a)
  \/ \E a \in ConnAddrs : OnNewConnection(a)
  \/ \E a \in ConnAddrs : OnJoinCmdConnectionFailed(a)
  \/ \E a \in ConnAddrs, reply \in RedirectReplies : PeerReply(a, reply)
  \/ \E c \in Clients : ClientClose(c)

SpecClose == Init /\ [][NextClose]_vars

\* every operation that could touch the group id: Init with any id, the Init a join
\* handshake runs, membership changes and ShutDown
NextGroup ==
  \/ \E g \in GroupIds, f \in BOOLEAN : \E env \in InitEnvsFor(g) : InitCall(g, f, env)
  \/ \E p \in OtherPeers : AddPeerCall(p)
  \/ \E p \in OtherPeers : RemovePeerCall(p)
  \/ ChangeReturn
  \/ \E st \in {OK, Status(1, "Not leader")} : EngineResolve(st)
  \/ ShutDown
  \/ JoinCmd(1, Addr("10.0.0.2", BasePort))
  \/ \E a \in ConnAddrs : OnNewConnection(a)
  \/ \E a \in ConnAddrs, reply \in GroupIdReplies : PeerReply(a, reply)

SpecGroup == Init /\ [][NextGroup]_vars

\* membership changes on a bootstrapped node that gains and loses leadership, in a
\* group whose configuration nothing but these calls changes
NextMembership ==
  \/ \E f \in BOOLEAN : InitCall(Rep("b", RAFT_DBID_LEN), f, AllOk)
  \/ EngineElect
  \/ EngineStepDown
  \/ \E p \in Peers : AddPeerCall(p)
  \/ \E p \in Peers : RemovePeerCall(p)
  \/ \E st \in {OK} \cup EngineFailures : EngineResolve(st)
  \/ ChangeReturn
  \/ ShutDown

SpecMembership == Init /\ [][NextMembership]_vars

\* tasks submitted to a leader that may lose and regain leadership before they commit.
\* The engine keeps running: weak fairness
NextLeaderLoss ==
  \/ \E f \in BOOLEAN : InitCall(Rep("b", RAFT_DBID_LEN), f, AllOk)
  \/ EngineElect
  \/ EngineStepDown
  \/ \E ld \in OtherPeers : EngineFollow(ld)
  \/ \E t \in Tasks : LeaderApply(t)
  \/ EngineCommit
  \/ OnApply

SpecLeaderLoss == Init /\ [][NextLeaderLoss]_vars /\ WF_vars(NextLeaderLoss)

\* one thread in Init, the others in the queries, Apply and the membership changes
NextInitWindow ==
  \/ \E f \in BOOLEAN : InitCheck(1, Rep("b", RAFT_DBID_LEN), f)
  \/ InitGoOn(1)
  \/ \E node_init \in BOOLEAN : InitNodeInit(1, node_init)
  \/ \E q \in Queries : QueryCheck(q)
  \/ QueryUse
  \/ \E t \in Tasks : Apply(t)
  \/ \E p \in OtherPeers : AddPeerCall(p)
  \/ \E p \in OtherPeers : RemovePeerCall(p)
  \/ \E st \in {OK} \cup EngineFailures : EngineResolve(st)
  \/ ChangeReturn

SpecInitWindow == Init /\ [][NextInitWindow]_vars

\* the engine calling the hooks of a node that is started, elected and shut down
NextHooks ==
  \/ \E f \in BOOLEAN : InitCall(Rep("b", RAFT_DBID_LEN), f, AllOk)
  \/ EngineElect
  \/ EngineStepDown
  \/ ShutDown
  \/ EngineTerminate
  \/ \E h \in Hooks : HookCall(h)
  \/ HookReturn

\* a hook that was entered gets to run
SpecHooks == Init /\ [][NextHooks]_vars /\ WF_vars(HookReturn)

\* a group that is bootstrapped by one node, grows by joins and elects leaders
NextElection ==
  \/ GroupBootstrap
  \/ \E n \in Nodes : GroupJoin(n)
  \/ \E n \in Nodes, q \in SUBSET Nodes : GroupElect(n, q)
  \/ \E n \in Nodes : GroupStepDown(n)

SpecElection == Init /\ [][NextElection]_vars

\* the join handshake on a node nothing else initializes
NextJoinOnly ==
  \/ \E a \in JoinAddrs : JoinCmd(1, a)
  \/ \E a \in ConnAddrs : OnNewConnection(a)
  \/ \E a \in ConnAddrs : OnJoinCmdConnectionFailed(a)
  \/ \E a \in ConnAddrs, reply \in PeerReplies : PeerReply(a, reply)

SpecJoinOnly == Init /\ [][NextJoinOnly]_vars

\* one join against a member of an established group, by a node that may have been
\* initialized before.  The event loop keeps handling what arrives and the members keep
\* answering: weak fairness
NextCluster ==
  \/ InitCall(Rep("b", RAFT_DBID_LEN), TRUE, AllOk)
  \/ \E a \in JoinAddrs : JoinOnce(a)
  \/ \E a \in JoinAddrs : OnNewConnection(a)
  \/ \E a \in JoinAddrs : ClusterHandle(a)
  \/ \E a \in JoinAddrs : ClusterDeliver(a)

SpecCluster == Init /\ [][NextCluster]_vars /\ WF_vars(NextCluster)

\* Init called by two threads at once
NextInitRace ==
  \/ \E t \in InitThreads, g \in GroupIds, f \in BOOLEAN : InitCheck(t, g, f)
  \/ \E t \in InitThreads : InitProceed(t)

SpecInitRace == Init /\ [][NextInitRace]_vars

\* the state machine of a node that is bootstrapped, elected, handed tasks and, after
\* stepping down, sent snapshots
NextFsm ==
  \/ InitCall(Rep("b", RAFT_DBID_LEN), FALSE, AllOk)
  \/ EngineElect
  \/ EngineStepDown
  \/ \E t \in Tasks : Apply(t)
  \/ EngineCommit
  \/ OnApply
  \/ OnSnapshotSave
  \/ \E k \in 1..MaxTasks : OnSnapshotLoad(k)
  \/ \E e \in EngineFailures : OnError(e)

SpecFsm == Init /\ [][NextFsm]_vars

----------------------------------------------------------------------------
(* The claims *)

SelfPeer == PeerId(g_config.ip, g_config.port + g_config.raft_port_offset)

C2_BootstrapSeedsSelf ==
  (ret.op = "Init" /\ ok(ret.val) /\ ~ret.after_success)
    => LET bootstrap == ~ret.flag
       IN  /\ initial_conf = (IF bootstrap THEN {SelfPeer} ELSE {})
           /\ braft_node.conf = initial_conf
           /\ braft_node.peer = SelfPeer

C2_Witness ==
  /\ ret.op = "Init" /\ ok(ret.val) /\ ~ret.after_success
  /\ ~ret.flag /\ braft_node.conf = {SelfPeer}

\* C3: an Init call with a group id of the wrong length returns a non-OK status
\* (it never aborts the process), starts neither the RPC server nor the node and
\* does not record the group id.
C3_WrongLengthRejected ==
  /\ ~aborted
  /\ (ret.op = "Init" /\ ~ret.after_success /\ Len(ret.group_id) /= RAFT_DBID_LEN)
       => /\ ~ok(ret.val)
          /\ brpc_server.status /= "RUNNING"
          /\ node_ = 0
          /\ dbid_ /= ret.group_id

\* C4: after an Init call returned a non-OK status the node is uninitialized:
\* IsLeader is false, every query gives its not-initialized result, and the next
\* Init call makes a fresh attempt (it constructs a server) instead of returning
\* OK at once.
C4_FailedInitLeavesUninitialized ==
  /\ [](last_init = "fail" =>
          /\ node_ = 0
          /\ IsLeader.val = FALSE
          /\ GetLeaderId.val = <<"Fail to get leader id">>
          /\ GetNodeId.val = <<"Fail to get node id">>
          /\ GetGroupId.val = <<"Fail to get cluster id">>
          /\ GetNodeStatus.val.state = "END"
          /\ \A ps \in PeerLists : ~ok(GetListPeers(ps).val))
  /\ [][(last_init = "fail" /\ (ret'.op = "Init" \/ aborted'))
          => (calls' /= << >> /\ Head(calls') = "Server::Server")]_vars

C4_Witness ==
  /\ ret.op = "Init" /\ ret.val = Status(EINVAL, "Fail to init raft node")
  /\ last_init = "fail"

\* position of the first occurrence of x in the sequence s, 0 when absent
IndexOf(s, x) ==
  IF \E i \in 1..Len(s) : s[i] = x
  THEN CHOOSE i \in 1..Len(s) : s[i] = x /\ \A j \in 1..(i-1) : s[j] /= x
  ELSE 0

\* C5: in every execution of Init the RPC listener is started (and is running)
\* before the consensus node is created and initialized, and no node is created
\* or initialized in an execution in which adding a service or starting the
\* listener failed.
C5_ServerBeforeNode ==
  /\ \A c \in {"Node::Node", "Node::init"} :
       IndexOf(calls, c) > 0
         => /\ IndexOf(calls, "Server::Start") > 0
            /\ IndexOf(calls, "Server::Start") < IndexOf(calls, c)
            /\ brpc_server.status = "RUNNING"
  /\ (ret.op = "Init" /\ ret.val.msg \in {"Fail to add service", "Fail to add raft service",
                                          "Fail to start Server"})
       => /\ IndexOf(calls, "Node::Node") = 0
          /\ IndexOf(calls, "Node::init") = 0
          /\ node_ = 0

C5_Witness ==
  /\ ret.op = "Init" /\ ok(ret.val)
  /\ IndexOf(calls, "Node::init") > 0

\* C6: as long as no Init call has succeeded, every query gives its
\* not-initialized result and makes no call on the consensus node: IsLeader is
\* false, GetLeaderId, GetNodeId and GetGroupId return their placeholder text, and
\* GetListPeers returns an error and leaves the caller's list as it was.
C6_QueriesBeforeInit ==
  last_init /= "ok" =>
    /\ IsLeader = [val |-> FALSE, calls |-> << >>]
    /\ GetLeaderId = [val |-> <<"Fail to get leader id">>, calls |-> << >>]
    /\ GetNodeId = [val |-> <<"Fail to get node id">>, calls |-> << >>]
    /\ GetGroupId = [val |-> <<"Fail to get cluster id">>, calls |-> << >>]
    /\ GetNodeStatus.calls = << >>
    /\ \A ps \in PeerLists :
         /\ ~ok(GetListPeers(ps).val)
         /\ GetListPeers(ps).peers = ps
         /\ GetListPeers(ps).calls = << >>

C6_Witness ==
  last_init = "fail" /\ dbid_ /= << >> /\ brpc_server.status = "RUNNING"

\* C7: AddPeer and RemovePeer return NotInitialized when there is no node;
\* otherwise they block until the engine has run the closure, and then return OK
\* exactly when the engine reported success and the engine's own status, code
\* and message, when it reported a failure.
C7_ChangePeersStatus ==
  /\ [](ret.op \in {"AddPeer", "RemovePeer"} =>
          IF ret.engine.armed
          THEN /\ ret.engine.set
               /\ ret.engine.kind = ret.op
               /\ (ret.val = OK) = ok(ret.engine.status)
               /\ ~ok(ret.engine.status) => ret.val = ret.engine.status
               /\ node_ /= 0
          ELSE /\ ret.val = Status(EINVAL, "Node is not initialized")
               /\ node_ = 0)
  /\ [][(pc = "idle" /\ node_ = 0) => pc' \notin {"AddPeer", "RemovePeer"}]_vars
  /\ [][(pc = "idle" /\ ret'.op \in {"AddPeer", "RemovePeer"}) => node_ = 0]_vars

C7_Witness ==
  /\ ret.op = "RemovePeer" /\ ret.engine.armed
  /\ ret.val = Status(110, "Timed out")

\* C8: Apply on a controller without a node is a no-op: nothing is handed to an
\* engine, no library call is made, the process does not abort, and the node, the
\* server, the group id, the JoinContext and everything else but the record of
\* the call stay as they were.
C8_ApplyUninitializedNoOp ==
  [][(node_ = 0 /\ ret'.op = "Apply")
       => (calls' = << >>
           /\ UNCHANGED <<Controller, submitted, aborted, pc, done, JoinVars>>)]_vars

C8_Witness ==
  /\ ret.op = "Apply" /\ node_ = 0 /\ submitted = << >>
  /\ join_ctx_.client /= 0 /\ brpc_server.status = "RUNNING"

\* C9: a ShutDown that directly follows a ShutDown changes nothing: the
\* controller, the consensus node and the RPC server are as the first call left
\* them.
C9_ShutDownIdempotent ==
  [][(ret.op = "ShutDown" /\ ret'.op = "ShutDown")
       => UNCHANGED <<Controller, aborted, submitted, pc, done>>]_vars

C9_Witness ==
  /\ ret.op = "ShutDown" /\ ret.twice
  /\ node_ /= 0 /\ braft_node.state = "SHUTTING" /\ brpc_server.status = "STOPPING"

\* C10: on an initialized node Join returns only when the consensus node has shut
\* down and the RPC server has stopped, and only if ShutDown has been called.
C10_JoinWaitsForShutdown ==
  (ret.op = "Join" /\ node_ /= 0)
    => /\ braft_node.state = "SHUTDOWN"
       /\ brpc_server.status = "READY"
       /\ shutdown_called

C10_Witness ==
  ret.op = "Join" /\ node_ /= 0 /\ ret.blocked

\* C11: once an Init call has succeeded, what GetGroupId returns never changes again,
\* whatever is called afterwards: Init with another id, the Init of a join handshake,
\* AddPeer, RemovePeer or ShutDown.
C11_GroupIdImmutable ==
  [][last_init = "ok" => GetGroupId.val' = GetGroupId.val]_vars

\* an Init with another id, or a group-id reply carrying another id, has been handled
\* after the successful Init
C11_Witness ==
  /\ last_init = "ok"
  /\ shutdown_called
  /\ \/ ret.op = "Init" /\ ret.after_success /\ ret.group_id /= dbid_
     \/ /\ ret.op = "ProcessClusterJoinCmdResponse"
        /\ KindOfReply[ret.reply] = "group_id"
        /\ GroupIdOfReply[ret.reply].valid
        /\ GroupIdOfReply[ret.reply].id /= dbid_

\* a reply handled by ProcessClusterJoinCmdResponse while the JoinContext held a
\* client, and the branch it took
JoinReplyHandled(kind) ==
  /\ ret.op = "ProcessClusterJoinCmdResponse"
  /\ ret.join_client /= 0
  /\ KindOfReply[ret.reply] = kind

\* C12: when the reply carries a group id, the add-peer request goes out on the
\* connection the reply came from only after the local node was initialized with
\* exactly the received id and an empty initial configuration; when Init fails no
\* request goes out.
C12_JoinInitUsesReceivedId ==
  (JoinReplyHandled("group_id") /\ GroupIdOfReply[ret.reply].valid)
    => IF ret.val[2]
       THEN conn[ret.conn] = NoConn /\ last_init = "fail"
       ELSE /\ conn[ret.conn].req = NodeAddRequest
            /\ last_init = "ok"
            /\ node_ /= 0
            /\ dbid_ = GroupIdOfReply[ret.reply].id
            /\ initial_conf = {}

\* C13: a +OK reply makes the handler send exactly one success reply, to the client
\* the JoinContext records; nothing is sent on the connection the reply came from,
\* which stays open, and no other client gets anything.
C13_OkRepliesToJoinClient ==
  [][(JoinReplyHandled("ok"))'
       => /\ client_msgs' = [client_msgs EXCEPT ![join_ctx_.client] =
                                Append(@, [res |-> "kOK", msg |-> << >>])]
          /\ ret'.join_client = join_ctx_.client
          /\ conn' = conn
          /\ ret'.val = <<Len(ret'.reply), FALSE>>
          /\ calls' = << >>]_vars

C13_Witness ==
  /\ JoinReplyHandled("ok")
  /\ ret.join_client = 1
  /\ client_msgs[1] /= << >>
  /\ client_msgs[1][Len(client_msgs[1])].res = "kOK"
  /\ conn[ret.conn].state = "open"
  /\ conn[ret.conn].req = NodeAddRequest

\* the last step resolved a join handshake: a +OK reply, an error path of the reply
\* handler, or a failed connection
JoinResolved ==
  \/ JoinReplyHandled("ok")
  \/ JoinReplyHandled("group_id") /\ ret.val[2]
  \/ JoinReplyHandled("other")
  \/ ret.op = "OnJoinCmdConnectionFailed"

\* C14: when a join handshake resolves, on the +OK path, on every error path and on
\* a connection failure, the JoinContext holds no client any more.
C14_JoinContextCleared ==
  JoinResolved => JoinCtxGetClient = 0

\* the address a peer put into its wrong-leader reply: the ip and the port that
\* follow the error text and a blank
LeaderInReply(reply) ==
  Addr(reply[Len(Str_ERR_wrong_leader) + 2], reply[Len(Str_ERR_wrong_leader) + 4])

\* C15: on a wrong-leader reply the handler asks for a connection to exactly the
\* address the reply carries and records that address in the JoinContext for the same
\* client, without replying to the client; once that connection is up on an
\* initialized node the add-peer request is what goes out on it.
C15_RedirectFollowsLeader ==
  [][/\ (JoinReplyHandled("wrong_leader"))'
          => LET leader == LeaderInReply(ret'.reply)
             IN  /\ calls' = <<"EventLoop::Connect">>
                 /\ conn'[leader] = [state |-> "connecting", req |-> <<"none">>]
                 /\ \A a \in ConnAddrs \ {leader, ret'.conn} : conn'[a] = conn[a]
                 /\ join_ctx_' = JoinCtxSet(join_ctx_.client, leader.ip, leader.port)
                 /\ client_msgs' = client_msgs
                 /\ UNCHANGED Controller
     /\ \A a \in ConnAddrs :
          (conn[a].state = "connecting" /\ conn'[a].state = "open" /\ node_ /= 0)
            => conn'[a].req = NodeAddRequest]_vars

\* a redirect to another peer has been followed and the add-peer request has gone out
\* on the connection it opened
C15_Witness ==
  /\ join_ctx_.client = 1
  /\ \E a \in JoinAddrs :
       /\ join_ctx_.peer_ip = a.ip
       /\ conn[a].state = "open"
       /\ conn[a].req = NodeAddRequest
       /\ \A b \in ConnAddrs \ {a} : conn[b] = NoConn
  /\ njoin[1] = 1
  /\ client_msgs[1] = << >>
  /\ dbid_ = Rep("a", RAFT_DBID_LEN)
  /\ ret = NoRet

\* C16: redirect following is bounded: whatever wrong-leader replies the peers send,
\* a join handshake that was started is eventually resolved, that is, its client
\* eventually gets a reply (OK or an error).
C16_RedirectsBounded ==
  [](njoin[1] > 0 => <>(client_msgs[1] /= << >>))

\* C17: a connection of the handshake that fails, the first one or one opened to
\* follow a redirect, makes the handler send the client the JoinContext records one
\* error reply whose text names the ip and the port that could not be reached; the
\* controller's fields are left alone.
C17_ConnectionFailureReported ==
  [][ret'.op = "OnJoinCmdConnectionFailed"
       => /\ conn[ret'.val].state = "connecting"
          /\ conn'[ret'.val] = NoConn
          /\ join_ctx_.client /= 0
          /\ client_msgs' =
               [client_msgs EXCEPT ![join_ctx_.client] =
                  Append(@, [res |-> "kErrOther",
                             msg |-> <<"ERR failed to connect to cluster for join, please check logs ",
                                       ret'.val.ip, ":", ret'.val.port>>])]
          /\ UNCHANGED Controller]_vars

\* the connection opened to follow a redirect has failed: the node was initialized by
\* the handshake, so the first connection had opened
C17_Witness ==
  /\ ret.op = "OnJoinCmdConnectionFailed"
  /\ njoin[1] = 1
  /\ node_ /= 0
  /\ dbid_ = Rep("a", RAFT_DBID_LEN)
  /\ join_ctx_.peer_ip = ret.val.ip
  /\ Len(client_msgs[1]) = 1
  /\ client_msgs[1][1].res = "kErrOther"

\* C18: a reply that is neither +OK, nor a wrong-leader redirect, nor a group-id
\* report makes the handler send the client of the JoinContext one error reply whose
\* text is the reply as received; Init is not run, no library call is made, nothing
\* is sent to the peer and the handler asks for the connection to be closed.
C18_UnknownReplyReported ==
  [][(JoinReplyHandled("other"))'
       => /\ client_msgs' = [client_msgs EXCEPT ![join_ctx_.client] =
                                Append(@, [res |-> "kErrOther", msg |-> ret'.reply])]
          /\ UNCHANGED <<Controller, last_init, join_ctx_>>
          /\ calls' = << >>
          /\ ret'.val = <<Len(ret'.reply), TRUE>>
          /\ conn'[ret'.conn] = NoConn
          /\ \A a \in ConnAddrs \ {ret'.conn} : conn'[a] = conn[a]]_vars

\* the peer answered the add-peer request of an initialized node with an error
C18_Witness ==
  /\ JoinReplyHandled("other")
  /\ ret.reply = Str_ERR_other
  /\ node_ /= 0
  /\ client_msgs[1] = <<[res |-> "kErrOther", msg |-> Str_ERR_other]>>

\* C19: with two join handshakes under way, what a reply or a connection failure on
\* a connection of one handshake makes the controller send goes to the client of that
\* handshake: no other client gets a reply out of it.
C19_RepliesReachOwnClient ==
  [][\A a \in ConnAddrs :
       (\/ ret'.op = "ProcessClusterJoinCmdResponse" /\ ret'.conn = a
        \/ ret'.op = "OnJoinCmdConnectionFailed" /\ ret'.val = a)
         => \A c \in Clients \ {owner[a]} : client_msgs'[c] = client_msgs[c]]_vars

\* C20: no completion path of a join, reply handler or connection-failure callback,
\* sets a result on, sends a packet to or clears a client whose connection has closed.
C20_NoUseAfterClose ==
  ~dangling

\* the entries first..last of the log as the commands a storage adapter would hold
CmdsOf(first, last) == [i \in 1..(last - first + 1) |-> Cmd(first + i - 1, log[first + i - 1])]

\* how many times x occurs in the sequence seq
Occurrences(seq, x) == Cardinality({k \in DOMAIN seq : seq[k] = x})

\* C21: on_apply applies the committed entries to the storage adapter in exactly the
\* order its iterator yields them: a call that was given the entries first..last leaves
\* the storage with those entries' commands appended, in log order.
C21_AppliedInIteratorOrder ==
  [][ret'.op = "on_apply" => storage' = storage \o CmdsOf(ret'.first, ret'.last)]_vars

\* C22: every committed entry the state machine was given through on_apply has taken
\* effect on the storage adapter exactly once, never zero times and never twice.
C22_AppliedExactlyOnce ==
  \A i \in (snap.loaded + 1)..applied_index : Occurrences(storage, Cmd(i, log[i])) = 1

\* C23: the completion closure of every task that committed and that on_apply has
\* processed has run exactly once, and no closure runs before on_apply processed its
\* entry: on_apply never returns leaving a closure of its batch unfired.
C23_ClosureFiredOnce ==
  /\ \A i \in (snap.loaded + 1)..applied_index : Occurrences(fired, i) = 1
  /\ \A k \in DOMAIN fired : fired[k] <= applied_index

\* C24: on_apply never moves past a committed entry without applying it: after a call
\* every entry the iterator passed is in the storage adapter, or the node is in the
\* fatal error state.
C24_NoEntrySkipped ==
  [][ret'.op = "on_apply"
       => \/ \A i \in ret'.first..applied_index' : Occurrences(storage', Cmd(i, log[i])) > 0
          \/ braft_node'.state = "ERROR"]_vars

\* applying the entries 1..n one by one to an empty storage adapter
DirectApply(n) == on_apply([storage |-> EmptyStorage, fired |-> << >>], Iterator(1, n)).st.storage

\* C25: a node that loaded the snapshot taken at index K, whatever its storage held
\* before, and then applied the entries K+1..N holds the storage state that applying
\* the entries 1..N one by one produces.
C25_SnapshotEquivalence ==
  (snap.loaded > 0 /\ applied_index > snap.loaded) => storage = DirectApply(applied_index)

\* C26: every on_snapshot_save that has returned has written the storage state it was
\* called on through the writer and has run its completion closure exactly once.
C26_SnapshotSaveCompletes ==
  snap.returned > 0 => (snap.done_runs = snap.returned /\ snap.image = snap.saved_from)

\* C27: two Init calls that run concurrently never both pass the check against
\* double initialization: at most one thread is past the test of node_ && server_.
C27_OneInitPastCheck ==
  Cardinality({t \in InitThreads : inits[t].pc = "passed"}) <= 1

\* C28: a join handshake that resolved in an error leaves the joining node without a
\* replication group: when the last thing the client of the join was sent is an error,
\* the node, which nothing but the handshake initializes, holds no raft node.
C28_FailedJoinLeavesUninitialized ==
  (client_msgs[1] /= << >> /\ client_msgs[1][Len(client_msgs[1])].res /= "kOK")
    => node_ = 0

\* C29: a membership change is all or nothing.  When AddPeer or RemovePeer returns
\* after done.wait() and GetListPeers answers, the peers it reports are, after a
\* non-OK return, the configuration from before the call and, after an OK return,
\* that configuration with exactly the peer of the call added or removed.
C29_NoPartialChange ==
  [][(ret'.op \in {"AddPeer", "RemovePeer"} /\ ret'.engine.armed /\ ok(GetListPeers({}).val)')
       => GetListPeers({}).peers' =
            IF ~ok(ret'.val) THEN ret'.engine.before
            ELSE IF ret'.op = "AddPeer" THEN ret'.engine.before \cup {ret'.engine.peer}
            ELSE ret'.engine.before \ {ret'.engine.peer}]_vars

\* AddPeer of a peer that was no member has returned OK and GetListPeers reports it
C29_Witness ==
  /\ ret.op = "AddPeer" /\ ret.val = OK /\ ret.engine.armed
  /\ ret.engine.peer \notin ret.engine.before
  /\ ok(GetListPeers({}).val)
  /\ GetListPeers({}).peers = ret.engine.before \cup {ret.engine.peer}

\* AddPeer has returned the engine's failure to a leader whose peers are as before
C29_WitnessFailed ==
  /\ ret.op = "AddPeer" /\ ~ok(ret.val) /\ ret.engine.armed
  /\ ok(GetListPeers({}).val)
  /\ ret.engine.peer \notin GetListPeers({}).peers

\* the client of the join was told +OK and the group has grown by this node
Joined ==
  /\ client_msgs[1] = <<[res |-> "kOK", msg |-> << >>]>>
  /\ cluster.conf = ClusterConf \cup {SelfPeer}

\* C30: in an established group with a stable leader a join, against the leader or
\* against a member that is not the leader, by a node whose configured ip is an
\* address and whose library calls succeed, ends with the client told +OK and the
\* group's peers grown by exactly the joining node; the group's peers never change in
\* any other way.
C30_RedirectConvergence ==
  /\ [](cluster.conf \in {ClusterConf, ClusterConf \cup {SelfPeer}})
  /\ []((njoin[1] > 0 /\ g_config.ip \in ValidIps) => <>Joined)

\* the join went to the member that is not the leader and was redirected
C30_Witness ==
  /\ Joined
  /\ \E a \in JoinAddrs \ {ClusterLeader} : owner[a] = 1
  /\ ret.op = "ProcessClusterJoinCmdResponse" /\ ret.conn = ClusterLeader
  /\ node_ /= 0 /\ dbid_ = ClusterGroupId

C34_HooksTerminate ==
  \A h \in Hooks : (hook.st = "running" /\ hook.name = h) ~> (hook.st = "idle")

\* on_shutdown has returned while the node is still shutting down
C34_Witness ==
  /\ ret.op = "on_shutdown"
  /\ hook.st = "idle"
  /\ braft_node.state = "SHUTTING"

\* C36: the client of a join command is told kOK only after the local node was
\* initialized from a received group id and the add-peer request went out: a +OK that
\* is handled while the group id is still awaited produces no success reply.
C36_SuccessOnlyAfterInit ==
  \A c \in Clients :
    (\E i \in 1..Len(client_msgs[c]) : client_msgs[c][i].res = "kOK")
      => /\ node_ /= 0
         /\ last_init = "ok"
         /\ \E a \in JoinAddrs : conn[a].req = NodeAddRequest

\* C37: the client of a join command receives at most one reply for it: a client has
\* never been sent more replies than it has issued join commands, whatever replies and
\* connection failures follow the one that resolved the handshake.
C37_AtMostOneReplyPerJoin ==
  \A c \in Clients : Len(client_msgs[c]) <= njoin[c]

\* the reply has a line raft_group_id:<id>\r\n
WellFormedGroupIdLine(reply) ==
  \E i \in 0..Len(reply) :
    /\ find(reply, Str_raft_group_id_colon, 0) = i
    /\ find(reply, Str_CRLF, i + Len(Str_raft_group_id_colon)) /= npos

\* C38: a reply that contains raft_group_id but no line raft_group_id:<id>\r\n is
\* rejected: the client of the join command is sent kErrOther "Invalid raft_group_id",
\* Init is not called and the controller is left as it was.
C38_MalformedGroupIdRejected ==
  [][(/\ ret'.op = "ProcessClusterJoinCmdResponse"
      /\ ret'.join_client /= 0
      /\ KindOfReply[ret'.reply] = "group_id"
      /\ ~WellFormedGroupIdLine(ret'.reply))
       => /\ UNCHANGED <<Controller, last_init>>
          /\ client_msgs' = SendToClient(client_msgs, ret'.join_client, "kErrOther",
                                         <<"Invalid raft_group_id">>)]_vars

\* the errors Init returns after it has started the RPC server
FailuresAfterStart == {"Fail to covert str_ip to butil::ip_t", "Fail to parse address.",
                       "Fail to init raft node"}

\* C40: an Init call that fails after the RPC server was started stops and releases the
\* server before it returns: no listener is left on the raft port, and the server
\* handle, the group id and the self address are as they were before the call.
C40_FailedInitReleasesServer ==
  [][(ret'.op = "Init" /\ ~ok(ret'.val) /\ ret'.val.msg \in FailuresAfterStart)
       => /\ brpc_server'.status /= "RUNNING"
          /\ server_' = server_
          /\ dbid_' = dbid_
          /\ raw_addr_' = raw_addr_]_vars

\* the calls that operate on the node behind node_
NodeUses == {"Node::is_leader", "Node::leader_id", "Node::node_id", "Node::get_status",
             "Node::list_peers", "Node::apply", "Node::add_peer", "Node::remove_peer"}

\* C39: a query, Apply, AddPeer or RemovePeer that runs while Init runs never calls
\* into a node whose initialization has not completed, and never through a handle
\* that a failing Init has released.
C39_OnlyInitializedNodeIsUsed ==
  [][(\E i \in 1..Len(calls') : calls'[i] \in NodeUses)
       => /\ braft_node.state \notin {"CONSTRUCTED", "NONE"}
          /\ query'.on /= "RELEASED"]_vars

====
